---- MODULE Spec2Model ----
(***************************************************************************)
(* A model of the DQN trainer of DQN_PyTorch.py: the action-value network, *)
(* the training update (train_step) and the checkpoint lifecycle           *)
(* (__init__ load-and-resume, save_ckpt).                                  *)
(*                                                                         *)
(* Numbers.  Tensor elements are float32 values.  The model keeps the      *)
(* values on the integer grid, where float32 arithmetic is exact, and      *)
(* keeps the three IEEE-754 special values: +inf, -inf and NaN.  A result  *)
(* whose magnitude exceeds MaxFinite overflows to an infinity, as a        *)
(* float32 result beyond the largest finite float does.                    *)
(***************************************************************************)
EXTENDS Integers, Sequences, FiniteSets, TLC

(***************************************************************************)
(* Bounds of the model.                                                    *)
(***************************************************************************)
\* largest finite float of the model (float32: about 3.4e38)
MaxFinite == 40
\* output channels of conv1 (16 in the source), of conv2 (32) and the
\* width of fc3 (256), scaled down
Conv1Out == 1
Conv2Out == 1
Fc3Out == 1
\* at most this many operations (constructions, train_step and save_ckpt
\* calls) in one behaviour
MaxCalls == 4

(***************************************************************************)
(* Program constants.                                                      *)
(***************************************************************************)
InChannels == 6
NumActions == 4
KernelSize == 3
Padding == 1

(***************************************************************************)
(* float32 values and their arithmetic.                                    *)
(***************************************************************************)
PInf == MaxFinite + 1
NInf == 0 - (MaxFinite + 1)
NaN == MaxFinite + 2

IsNaN(x) == x = NaN
IsInf(x) == x = PInf \/ x = NInf
IsFinite(x) == x >= 0 - MaxFinite /\ x <= MaxFinite

\* the float nearest to the exact result z
Round(z) == IF z > MaxFinite THEN PInf
            ELSE IF z < 0 - MaxFinite THEN NInf
            ELSE z

FNeg(x) == IF IsNaN(x) THEN NaN ELSE 0 - x

FAdd(x, y) ==
    IF IsNaN(x) \/ IsNaN(y) THEN NaN
    ELSE IF IsInf(x) /\ IsInf(y) THEN (IF x = y THEN x ELSE NaN)
    ELSE IF IsInf(x) THEN x
    ELSE IF IsInf(y) THEN y
    ELSE Round(x + y)

FSub(x, y) == FAdd(x, FNeg(y))

Sign(x) == IF x > 0 THEN 1 ELSE IF x < 0 THEN 0 - 1 ELSE 0

FMul(x, y) ==
    IF IsNaN(x) \/ IsNaN(y) THEN NaN
    ELSE IF IsInf(x) \/ IsInf(y)
         THEN (IF x = 0 \/ y = 0 THEN NaN
               ELSE IF Sign(x) * Sign(y) > 0 THEN PInf ELSE NInf)
    ELSE Round(x * y)

\* torch.max of two elements: a NaN operand gives NaN
FMax(x, y) == IF IsNaN(x) \/ IsNaN(y) THEN NaN ELSE IF x >= y THEN x ELSE y

\* sum of a sequence of floats, accumulated left to right
RECURSIVE FSumSeq(_)
FSumSeq(s) == IF Len(s) = 0 THEN 0
              ELSE FAdd(FSumSeq(SubSeq(s, 1, Len(s) - 1)), s[Len(s)])

\* maximum of a non-empty sequence of floats
RECURSIVE FMaxSeq(_)
FMaxSeq(s) == IF Len(s) = 1 THEN s[1]
              ELSE FMax(FMaxSeq(SubSeq(s, 1, Len(s) - 1)), s[Len(s)])

\* a sequence constructor [i \in 1..n |-> e] as a tuple: TLC then computes
\* its elements once, not at every application
T(f) == f \o << >>

\* the element of a set of one element: TLC computes the element before it
\* goes on, so that a chain of computations is not nested in its last one
Only(S) == CHOOSE x \in S : TRUE

\* the concatenation of a sequence of sequences
RECURSIVE Concat(_)
Concat(ss) == IF Len(ss) = 0 THEN << >>
              ELSE Concat(SubSeq(ss, 1, Len(ss) - 1)) \o ss[Len(ss)]

(***************************************************************************)
(* The layers.  An image is x[c][h][w] (channel first); a convolution      *)
(* weight is w[co][ci][kh][kw]; a linear weight is w[out][in].             *)
(***************************************************************************)
\* a faulty output size: the convolution without its padding
ConvOutUnpadded(n) == n - KernelSize + 1

\* the size a convolution of stride 1 gives a spatial dimension of size n
ConvOut(n) == n + 2 * Padding - KernelSize + 1

\* the zero-padded image
Padded(x, c, h, w) ==
    IF h >= 1 /\ h <= Len(x[c]) /\ w >= 1 /\ w <= Len(x[c][1])
    THEN x[c][h][w] ELSE 0

\* nn.Conv2d(kernel_size=3, stride=1, padding=1) on one image; the products
\* are summed over the kernel row, then the kernel rows, then the channels
Conv2d(weight, bias, x) ==
    LET H == Len(x[1])
        W == Len(x[1][1])
        Taps(co, h, w) ==
            FSumSeq(T([ci \in 1..Len(x) |->
              FSumSeq(T([kh \in 1..KernelSize |->
                FSumSeq(T([kw \in 1..KernelSize |->
                   FMul(weight[co][ci][kh][kw],
                        Padded(x, ci, h + kh - 1 - Padding,
                               w + kw - 1 - Padding))]))]))]))
    IN T([co \in 1..Len(weight) |->
         T([h \in 1..ConvOut(H) |->
           T([w \in 1..ConvOut(W) |->
              FAdd(Taps(co, h, w), bias[co])])])])

\* nn.ReLU on one element: NaN stays NaN
ReluElem(v) == IF IsNaN(v) THEN NaN ELSE IF v > 0 THEN v ELSE 0

Relu3d(x) == T([c \in 1..Len(x) |-> T([h \in 1..Len(x[c]) |->
                T([w \in 1..Len(x[c][h]) |-> ReluElem(x[c][h][w])])])])

Relu1d(v) == T([j \in 1..Len(v) |-> ReluElem(v[j])])

\* torch.flatten(x, 1) on one image: channel, then row, then column
Flatten(x) == Concat(T([c \in 1..Len(x) |-> Concat(x[c])]))

\* nn.Linear on one feature vector
Linear(weight, bias, v) ==
    T([j \in 1..Len(weight) |->
       FAdd(FSumSeq(T([i \in 1..Len(v) |-> FMul(weight[j][i], v[i])])), bias[j])])

(***************************************************************************)
(* The network.  Its parameters are the record P of the eight tensors of   *)
(* the state dict: conv1, conv2, fc3 and fc4, weight and bias each.        *)
(***************************************************************************)
\* the tensor's shape (the sizes of its dimensions), by its rank
Shape1(t) == <<Len(t)>>
Shape2(t) == <<Len(t), Len(t[1])>>
Shape4(t) == <<Len(t), Len(t[1]), Len(t[1][1]), Len(t[1][1][1])>>

\* the values the forward pass computes on one channel-first image x
Activations(P, x) ==
    LET z1 == Conv2d(P.conv1_weight, P.conv1_bias, x)
        a1 == Relu3d(z1)
        z2 == Conv2d(P.conv2_weight, P.conv2_bias, a1)
        a2 == Relu3d(z2)
        f  == Flatten(a2)
        z3 == Linear(P.fc3_weight, P.fc3_bias, f)
        a3 == Relu1d(z3)
        q  == Linear(P.fc4_weight, P.fc4_bias, a3)
    IN
         [x |-> x, z1 |-> z1, a1 |-> a1, z2 |-> z2, a2 |-> a2, f |-> f,
          z3 |-> z3, a3 |-> a3, q |-> q]

\* forward on one image: the raw Q-values, one per action
forward(P, x) == Activations(P, x).q

\* forward raises unless the image has conv1's input channels and its
\* flattened features have fc3's input size
ForwardOk(P, x) ==
    /\ Len(x) = Len(P.conv1_weight[1])
    /\ Len(P.conv2_weight) * ConvOut(ConvOut(Len(x[1]))) * ConvOut(ConvOut(Len(x[1][1])))
         = Len(P.fc3_weight[1])

\* a faulty transposition: the observation's values are read in their stored
\* order under the new shape (a view), so no value moves
PermuteAsView(obs) ==
    LET H == Len(obs)
        W == Len(obs[1])
        C == Len(obs[1][1])
    IN T([c \in 1..C |-> T([h \in 1..H |-> T([w \in 1..W |->
           LET k == ((c - 1) * H + (h - 1)) * W + (w - 1)
           IN obs[(k \div (W * C)) + 1][((k \div C) % W) + 1][(k % C) + 1]])])])

\* permute(0, 3, 1, 2) on one observation: x[h][w][c] becomes x[c][h][w]
Permute(obs) ==
    T([c \in 1..Len(obs[1][1]) |-> T([h \in 1..Len(obs) |->
        T([w \in 1..Len(obs[1]) |-> obs[h][w][c]])])])

(***************************************************************************)
(* Broadcasting of the batch dimension, as the tensor operations do it.    *)
(***************************************************************************)
BroadcastOk(n, m) == n = m \/ n = 1 \/ m = 1
BroadcastLen(n, m) == IF n = 1 THEN m ELSE n
\* the index into a tensor of n rows for row i of the broadcast result
Ix(i, n) == IF n = 1 THEN 1 ELSE i

(***************************************************************************)
(* train_step, lines 110-138: target, prediction and loss.                 *)
(***************************************************************************)
\* q_next = self.forward(bat_n): one row of Q-values per next state
QNext(P, bat_n) == T([b \in 1..Len(bat_n) |-> forward(P, Permute(bat_n[b]))])

\* q_t = torch.max(q_next, dim=1)[0]
QMax(q_next) == T([b \in 1..Len(q_next) |-> FMaxSeq(q_next[b])])

\* a faulty target: the terminal flag is not applied
TargetUnmasked(bat_r, bat_t, discount, q_t) ==
    LET n1 == BroadcastLen(Len(bat_t), Len(q_t))
        n  == BroadcastLen(Len(bat_r), n1)
    IN T([i \in 1..n |->
          FAdd(bat_r[Ix(i, Len(bat_r))], FMul(discount, q_t[Ix(i, Len(q_t))]))])

\* yj = bat_r + (1.0 - bat_t) * discount * q_t
Target(bat_r, bat_t, discount, q_t) ==
    LET n1 == BroadcastLen(Len(bat_t), Len(q_t))
        n  == BroadcastLen(Len(bat_r), n1)
    IN T([i \in 1..n |->
          FAdd(bat_r[Ix(i, Len(bat_r))],
               FMul(FMul(FSub(1, bat_t[Ix(i, Len(bat_t))]), discount),
                    q_t[Ix(i, Len(q_t))]))])

\* self.forward(bat_s), with the values autograd keeps for the backward pass
ForwardAll(P, bat_s) == T([b \in 1..Len(bat_s) |-> Activations(P, Permute(bat_s[b]))])

\* q_pred_all_actions = self.forward(bat_s)
QPredAll(fwd) == T([b \in 1..Len(fwd) |-> fwd[b].q])

\* q_pred = torch.sum(q_pred_all_actions * bat_a, dim=1)
QPred(q_all, bat_a) ==
    LET n == BroadcastLen(Len(q_all), Len(bat_a))
    IN T([i \in 1..n |->
          FSumSeq(T([k \in 1..NumActions |->
              FMul(q_all[Ix(i, Len(q_all))][k], bat_a[Ix(i, Len(bat_a))][k])]))])

\* faulty errors: not squared
SignedErrors(q_pred, yj) ==
    LET n == BroadcastLen(Len(q_pred), Len(yj))
    IN T([i \in 1..n |-> FSub(q_pred[Ix(i, Len(q_pred))], yj[Ix(i, Len(yj))])])

\* the squared errors nn.MSELoss averages
SquaredErrors(q_pred, yj) ==
    LET n == BroadcastLen(Len(q_pred), Len(yj))
    IN T([i \in 1..n |->
          LET d == FSub(q_pred[Ix(i, Len(q_pred))], yj[Ix(i, Len(yj))])
          IN FMul(d, d)])

\* a faulty loss: the sum of the squared errors, not their mean
SumLoss(q_pred, yj) == [num |-> FSumSeq(SquaredErrors(q_pred, yj)), den |-> 1]

\* nn.MSELoss: the mean, as the fraction sum / count (the sum alone when it
\* is not finite)
MSELoss(q_pred, yj) ==
    LET se == SquaredErrors(q_pred, yj)
        total == FSumSeq(se)
    IN IF IsFinite(total) THEN [num |-> total, den |-> Len(se)]
       ELSE [num |-> total, den |-> 1]

\* train_step raises on a batch the tensor operations reject
BatchOk(P, bat) ==
    /\ \A b \in 1..Len(bat.n) : ForwardOk(P, Permute(bat.n[b]))
    /\ \A b \in 1..Len(bat.s) : ForwardOk(P, Permute(bat.s[b]))
    /\ BroadcastOk(Len(bat.t), Len(bat.n))
    /\ BroadcastOk(Len(bat.r), BroadcastLen(Len(bat.t), Len(bat.n)))
    /\ \A b \in 1..Len(bat.a) : Len(bat.a[b]) = NumActions
    /\ BroadcastOk(Len(bat.s), Len(bat.a))
    /\ BroadcastOk(BroadcastLen(Len(bat.s), Len(bat.a)),
                   BroadcastLen(Len(bat.r), BroadcastLen(Len(bat.t), Len(bat.n))))

(***************************************************************************)
(* loss.backward(), line 142.  The gradient flows from the loss through    *)
(* q_pred and the forward pass on bat_s; yj was computed under no_grad and *)
(* is a constant of the graph.  Gradients are kept up to the common factor *)
(* 2 / count of the mean, which the Adam step below does not read.         *)
(***************************************************************************)
\* d loss / d q_pred[j]
GradQPred(q_pred, yj) ==
    LET n == BroadcastLen(Len(q_pred), Len(yj))
    IN T([j \in 1..Len(q_pred) |->
          FSumSeq(T([i \in 1..n |->
              IF Ix(i, Len(q_pred)) = j
              THEN FSub(q_pred[j], yj[Ix(i, Len(yj))]) ELSE 0]))])

\* d loss / d q_pred_all_actions[b][k], through the product with bat_a
GradQAll(dq_pred, nrows, bat_a) ==
    T([b \in 1..nrows |-> T([k \in 1..NumActions |->
        FSumSeq(T([j \in 1..Len(dq_pred) |->
            IF Ix(j, nrows) = b
            THEN FMul(dq_pred[j], bat_a[Ix(j, Len(bat_a))][k]) ELSE 0]))])])

\* the gradient of ReLU: it passes where the input is not <= 0
ReluBack(z, g) == IF ~IsNaN(z) /\ z <= 0 THEN 0 ELSE g

\* the gradients of one nn.Linear layer with input v and output gradient dz
LinearBack(weight, v, dz) ==
    [w |-> T([j \in 1..Len(weight) |-> T([i \in 1..Len(v) |-> FMul(dz[j], v[i])])]),
     b |-> dz,
     x |-> T([i \in 1..Len(v) |->
              FSumSeq(T([j \in 1..Len(weight) |-> FMul(dz[j], weight[j][i])]))])]

\* the gradients of one nn.Conv2d layer with input x and output gradient dz
Conv2dBack(weight, x, dz) ==
    LET H == Len(x[1])
        W == Len(x[1][1])
    IN [w |-> T([co \in 1..Len(weight) |-> T([ci \in 1..Len(x) |->
                T([kh \in 1..KernelSize |-> T([kw \in 1..KernelSize |->
                   FSumSeq(Concat(T([h \in 1..H |-> T([w \in 1..W |->
                      FMul(dz[co][h][w],
                           Padded(x, ci, h + kh - 1 - Padding,
                                  w + kw - 1 - Padding))])])))])])])]),
        b |-> T([co \in 1..Len(weight) |-> FSumSeq(Concat(dz[co]))]),
        x |-> T([ci \in 1..Len(x) |-> T([h \in 1..H |-> T([w \in 1..W |->
                FSumSeq(T([co \in 1..Len(weight) |->
                  FSumSeq(T([kh \in 1..KernelSize |->
                    FSumSeq(T([kw \in 1..KernelSize |->
                       FMul(Padded(dz, co, h - (kh - 1 - Padding),
                                   w - (kw - 1 - Padding)),
                            weight[co][ci][kh][kw])]))]))]))])])])]

\* the gradients of all parameters for one image, given d loss / d q
Backward(P, act, dq) ==
    LET H == Len(act.z2[1])
        W == Len(act.z2[1][1])
        dz3(g4) == T([j \in 1..Len(act.z3) |-> ReluBack(act.z3[j], g4.x[j])])
        dz2(g3) == T([c \in 1..Len(act.z2) |-> T([h \in 1..H |-> T([w \in 1..W |->
                      ReluBack(act.z2[c][h][w],
                               g3.x[(c - 1) * H * W + (h - 1) * W + w])])])])
        dz1(g2) == T([c \in 1..Len(act.z1) |-> T([h \in 1..H |-> T([w \in 1..W |->
                      ReluBack(act.z1[c][h][w], g2.x[c][h][w])])])])
    IN Only({Only({Only({Only({
         [conv1_weight |-> g1.w, conv1_bias |-> g1.b,
          conv2_weight |-> g2.w, conv2_bias |-> g2.b,
          fc3_weight |-> g3.w, fc3_bias |-> g3.b,
          fc4_weight |-> g4.w, fc4_bias |-> g4.b] :
            g1 \in {Conv2dBack(P.conv1_weight, act.x, Only({dz1(g2)}))}}) :
            g2 \in {Conv2dBack(P.conv2_weight, act.a1, Only({dz2(g3)}))}}) :
            g3 \in {LinearBack(P.fc3_weight, act.f, Only({dz3(g4)}))}}) :
            g4 \in {LinearBack(P.fc4_weight, act.a3, dq)}})

\* the sum of two tensors of the same shape, by rank
Add1(a, b) == T([i \in 1..Len(a) |-> FAdd(a[i], b[i])])
Add2(a, b) == T([i \in 1..Len(a) |-> Add1(a[i], b[i])])
Add4(a, b) == T([i \in 1..Len(a) |-> T([j \in 1..Len(a[i]) |-> Add2(a[i][j], b[i][j])])])

\* the sum of two parameter sets
AddParams(A, B) ==
    [conv1_weight |-> Add4(A.conv1_weight, B.conv1_weight),
     conv1_bias   |-> Add1(A.conv1_bias, B.conv1_bias),
     conv2_weight |-> Add4(A.conv2_weight, B.conv2_weight),
     conv2_bias   |-> Add1(A.conv2_bias, B.conv2_bias),
     fc3_weight   |-> Add2(A.fc3_weight, B.fc3_weight),
     fc3_bias     |-> Add1(A.fc3_bias, B.fc3_bias),
     fc4_weight   |-> Add2(A.fc4_weight, B.fc4_weight),
     fc4_bias     |-> Add1(A.fc4_bias, B.fc4_bias)]

\* a tensor of zeros of the shape of a, by rank
Zero1(a) == T([i \in 1..Len(a) |-> 0])
Zero2(a) == T([i \in 1..Len(a) |-> Zero1(a[i])])
Zero4(a) == T([i \in 1..Len(a) |-> T([j \in 1..Len(a[i]) |-> Zero2(a[i][j])])])

\* the parameter set of P's shapes with every element 0
ZeroLike(P) ==
    [conv1_weight |-> Zero4(P.conv1_weight), conv1_bias |-> Zero1(P.conv1_bias),
     conv2_weight |-> Zero4(P.conv2_weight), conv2_bias |-> Zero1(P.conv2_bias),
     fc3_weight   |-> Zero2(P.fc3_weight),   fc3_bias   |-> Zero1(P.fc3_bias),
     fc4_weight   |-> Zero2(P.fc4_weight),   fc4_bias   |-> Zero1(P.fc4_bias)]

\* a faulty zero_grad: the gradients of the call before stay
KeepGrad(g) == g

\* line 141, self.optimizer.zero_grad(): the .grad that backward adds to
ZeroGrad(g) == ZeroLike(g)

\* the gradients of the batch: the sum over the images of bat_s
RECURSIVE GradSum(_, _, _, _)
GradSum(P, acts, dq_all, n) ==
    IF n = 0 THEN ZeroLike(P)
    ELSE Only({AddParams(before, g) :
                 before \in {GradSum(P, acts, dq_all, n - 1)},
                 g \in {Backward(P, acts[n], dq_all[n])}})

\* d loss / d yj[i], for a yj that were part of the graph
GradTarget(q_pred, yj) ==
    LET n == BroadcastLen(Len(q_pred), Len(yj))
    IN T([i \in 1..Len(yj) |->
          FSumSeq(T([r \in 1..n |->
              IF Ix(r, Len(yj)) = i
              THEN FSub(yj[i], q_pred[Ix(r, Len(q_pred))]) ELSE 0]))])

\* a faulty no_grad: the target stays in the graph
TrackedBack(g) == g

\* line 115, with torch.no_grad(): what backward sends into a tensor that
\* was computed in the block: nothing, the tensor is a constant of the graph
NoGradBack(g) == T([i \in 1..Len(g) |-> 0])

\* the index torch.max takes the maximum at: the first NaN, or else the
\* first largest value
ArgMax(q) ==
    LET m == FMaxSeq(q)
    IN CHOOSE k \in 1..Len(q) : q[k] = m /\ \A j \in 1..(k - 1) : q[j] # m

\* d loss / d q_next[b][k] for a gradient dyj on yj: through
\* (1.0 - bat_t) * discount * q_t and the maximum
GradQNext(dyj, bat_t, discount, q_next) ==
    T([b \in 1..Len(q_next) |-> T([k \in 1..NumActions |->
        IF k # ArgMax(q_next[b]) THEN 0
        ELSE FSumSeq(T([i \in 1..Len(dyj) |->
                IF Ix(i, Len(q_next)) = b
                THEN FMul(dyj[i], FMul(FSub(1, bat_t[Ix(i, Len(bat_t))]), discount))
                ELSE 0]))])])

\* loss.backward(): the gradients through q_pred and the forward pass on
\* bat_s, and through whatever of yj is in the graph
BackwardPass(P, bat, discount, acts, q_next, q_pred, yj) ==
    LET through_s == Only({GradSum(P, acts, dq_all, Len(bat.s)) :
                             dq_all \in {GradQAll(GradQPred(q_pred, yj),
                                                  Len(bat.s), bat.a)}})
        dyj == NoGradBack(GradTarget(q_pred, yj))
    IN IF \A i \in 1..Len(dyj) : dyj[i] = 0 THEN through_s
       ELSE Only({AddParams(gs, gn) :
                    gs \in {through_s},
                    gn \in {GradSum(P, ForwardAll(P, bat.n),
                                    GradQNext(dyj, bat.t, discount, q_next),
                                    Len(bat.n))}})

\* lines 141-142: zero_grad() and then backward(), which adds to .grad
ZeroGradBackward(g0, P, bat, discount, acts, q_next, q_pred, yj) ==
    Only({AddParams(zero, g) :
            zero \in {ZeroGrad(g0)},
            g \in {BackwardPass(P, bat, discount, acts, q_next, q_pred, yj)}})

(***************************************************************************)
(* optimizer.step(), line 143: torch.optim.Adam.  The optimizer keeps its  *)
(* step count and, per parameter element, the first moment of the          *)
(* gradients.  The model keeps the moment unnormalised and moves each      *)
(* element by lr against the moment's sign (Adam's step is lr times the    *)
(* ratio of the moment estimates, of magnitude about 1); a non-finite      *)
(* moment makes the ratio, and the element, NaN.                           *)
(***************************************************************************)
AdamDir(m) == IF IsFinite(m) THEN Sign(m) ELSE NaN

AdamElem(theta, m, lr) == FSub(theta, FMul(lr, AdamDir(m)))

Adam1(a, m, lr) == T([i \in 1..Len(a) |-> AdamElem(a[i], m[i], lr)])
Adam2(a, m, lr) == T([i \in 1..Len(a) |-> Adam1(a[i], m[i], lr)])
Adam4(a, m, lr) ==
    T([i \in 1..Len(a) |-> T([j \in 1..Len(a[i]) |-> Adam2(a[i][j], m[i][j], lr)])])

AdamStep(P, exp_avg, lr) ==
    [conv1_weight |-> Adam4(P.conv1_weight, exp_avg.conv1_weight, lr),
     conv1_bias   |-> Adam1(P.conv1_bias, exp_avg.conv1_bias, lr),
     conv2_weight |-> Adam4(P.conv2_weight, exp_avg.conv2_weight, lr),
     conv2_bias   |-> Adam1(P.conv2_bias, exp_avg.conv2_bias, lr),
     fc3_weight   |-> Adam2(P.fc3_weight, exp_avg.fc3_weight, lr),
     fc3_bias     |-> Adam1(P.fc3_bias, exp_avg.fc3_bias, lr),
     fc4_weight   |-> Adam2(P.fc4_weight, exp_avg.fc4_weight, lr),
     fc4_bias     |-> Adam1(P.fc4_bias, exp_avg.fc4_bias, lr)]

(***************************************************************************)
(* Strings are sequences of one-character strings.  The string operations  *)
(* of __init__, lines 64-65: str.split, indexing from the end, int().      *)
(***************************************************************************)
Digits == <<"0", "1", "2", "3", "4", "5", "6", "7", "8", "9">>

IsDigit(c) == \E d \in 1..10 : Digits[d] = c
DigitVal(c) == (CHOOSE d \in 1..10 : Digits[d] = c) - 1

\* s.split(sep): the fields between the separators, at least one
RECURSIVE Split(_, _)
Split(s, sep) ==
    IF Len(s) = 0 THEN << << >> >>
    ELSE LET rest == Split(SubSeq(s, 1, Len(s) - 1), sep)
             n == Len(rest)
         IN IF s[Len(s)] = sep THEN Append(rest, << >>)
            ELSE [rest EXCEPT ![n] = Append(rest[n], s[Len(s)])]

\* s.strip(): without the blanks at both ends
RECURSIVE Strip(_)
Strip(s) == IF Len(s) > 0 /\ s[1] = " " THEN Strip(Tail(s))
            ELSE IF Len(s) > 0 /\ s[Len(s)] = " "
                 THEN Strip(SubSeq(s, 1, Len(s) - 1))
            ELSE s

\* the digits of int()'s argument, after the blanks and the sign
Unsigned(s) == LET t == Strip(s)
               IN IF Len(t) > 0 /\ (t[1] = "-" \/ t[1] = "+") THEN Tail(t) ELSE t

\* int(s) returns (it raises ValueError otherwise)
IntOk(s) == LET u == Unsigned(s)
            IN Len(u) > 0 /\ \A i \in 1..Len(u) : IsDigit(u[i])

RECURSIVE DigitsVal(_)
DigitsVal(u) == IF Len(u) = 0 THEN 0
                ELSE 10 * DigitsVal(SubSeq(u, 1, Len(u) - 1)) + DigitVal(u[Len(u)])

\* int(s), base 10
IntVal(s) == LET t == Strip(s)
             IN IF t[1] = "-" THEN 0 - DigitsVal(Unsigned(s))
                ELSE DigitsVal(Unsigned(s))

\* str(n) of a Python int
RECURSIVE NatStr(_)
NatStr(n) == IF n < 10 THEN <<Digits[n + 1]>>
             ELSE Append(NatStr(n \div 10), Digits[(n % 10) + 1])

IntStr(n) == IF n < 0 THEN <<"-">> \o NatStr(0 - n) ELSE NatStr(n)

(***************************************************************************)
(* Checkpoint files.  A file holds either bytes torch.load cannot read or  *)
(* a pickled state dict: the sequence of (key, tensor) entries.            *)
(***************************************************************************)
ParamKeys == <<"conv1.weight", "conv1.bias", "conv2.weight", "conv2.bias",
               "fc3.weight", "fc3.bias", "fc4.weight", "fc4.bias">>

\* a faulty state_dict: a step count is stored with the parameters
state_dictWithStep(P) ==
    <<[key |-> "conv1.weight", value |-> P.conv1_weight],
      [key |-> "conv1.bias",   value |-> P.conv1_bias],
      [key |-> "conv2.weight", value |-> P.conv2_weight],
      [key |-> "conv2.bias",   value |-> P.conv2_bias],
      [key |-> "fc3.weight",   value |-> P.fc3_weight],
      [key |-> "fc3.bias",     value |-> P.fc3_bias],
      [key |-> "fc4.weight",   value |-> P.fc4_weight],
      [key |-> "fc4.bias",     value |-> P.fc4_bias],
      [key |-> "global_step",  value |-> <<0>>]>>

\* a faulty state_dict: the last layer's bias is left out
state_dictNoFc4Bias(P) ==
    <<[key |-> "conv1.weight", value |-> P.conv1_weight],
      [key |-> "conv1.bias",   value |-> P.conv1_bias],
      [key |-> "conv2.weight", value |-> P.conv2_weight],
      [key |-> "conv2.bias",   value |-> P.conv2_bias],
      [key |-> "fc3.weight",   value |-> P.fc3_weight],
      [key |-> "fc3.bias",     value |-> P.fc3_bias],
      [key |-> "fc4.weight",   value |-> P.fc4_weight]>>

\* self.state_dict(): the parameter tensors by key, in module order
state_dict(P) ==
    <<[key |-> "conv1.weight", value |-> P.conv1_weight],
      [key |-> "conv1.bias",   value |-> P.conv1_bias],
      [key |-> "conv2.weight", value |-> P.conv2_weight],
      [key |-> "conv2.bias",   value |-> P.conv2_bias],
      [key |-> "fc3.weight",   value |-> P.fc3_weight],
      [key |-> "fc3.bias",     value |-> P.fc3_bias],
      [key |-> "fc4.weight",   value |-> P.fc4_weight],
      [key |-> "fc4.bias",     value |-> P.fc4_bias]>>

\* the shape of the tensor stored under a key
ShapeOf(key, t) ==
    IF key = "conv1.weight" \/ key = "conv2.weight" THEN Shape4(t)
    ELSE IF key = "fc3.weight" \/ key = "fc4.weight" THEN Shape2(t)
    ELSE Shape1(t)

HasKey(dict, key) == \E i \in 1..Len(dict) : dict[i].key = key
Lookup(dict, key) == dict[CHOOSE i \in 1..Len(dict) : dict[i].key = key].value

\* load_state_dict copies a tensor in place when the key is present with
\* the parameter's shape
Copies(dict, key, own) ==
    HasKey(dict, key) /\ ShapeOf(key, Lookup(dict, key)) = ShapeOf(key, own)

\* the parameter after load_state_dict
Loaded(dict, key, own) == IF Copies(dict, key, own) THEN Lookup(dict, key) ELSE own

\* load_state_dict(dict), strict: it copies every tensor it can and then
\* raises if a key was missing, unexpected or of another shape
load_state_dict(P, dict) ==
    LET own == state_dict(P)
    IN [weights |->
          [conv1_weight |-> Loaded(dict, "conv1.weight", P.conv1_weight),
           conv1_bias   |-> Loaded(dict, "conv1.bias", P.conv1_bias),
           conv2_weight |-> Loaded(dict, "conv2.weight", P.conv2_weight),
           conv2_bias   |-> Loaded(dict, "conv2.bias", P.conv2_bias),
           fc3_weight   |-> Loaded(dict, "fc3.weight", P.fc3_weight),
           fc3_bias     |-> Loaded(dict, "fc3.bias", P.fc3_bias),
           fc4_weight   |-> Loaded(dict, "fc4.weight", P.fc4_weight),
           fc4_bias     |-> Loaded(dict, "fc4.bias", P.fc4_bias)],
        raised |->
          \/ \E i \in 1..Len(own) : ~Copies(dict, own[i].key, own[i].value)
          \/ \E i \in 1..Len(dict) : ~HasKey(own, dict[i].key)]

\* os.path.exists
Exists(fsys, path) == path \in DOMAIN fsys

\* the file system after torch.save(dict, path)
torch_save(fsys, dict, path) ==
    [p \in (DOMAIN fsys) \cup {path} |->
        IF p = path THEN [readable |-> TRUE, dict |-> dict] ELSE fsys[p]]

\* a file torch.load raises on
Corrupt == [readable |-> FALSE, dict |-> << >>]

(***************************************************************************)
(* __init__, lines 56-70: the step count and the model loading.  P0 is the *)
(* randomly initialised network; load_file is [set |-> FALSE] for None.    *)
(***************************************************************************)
\* the trainer of a constructor that loaded nothing
Fresh(P0) ==
    [weights |-> P0, global_step |-> 0, found |-> FALSE, read |-> FALSE,
     loaded |-> FALSE, parsed |-> FALSE, caught |-> FALSE]

\* a faulty parse: the second field from the front
StepFieldFromFront(path) ==
    LET fields == Split(path, "_")
    IN IF Len(fields) < 2 THEN [ok |-> FALSE, value |-> 0]
       ELSE IF ~IntOk(fields[2]) THEN [ok |-> FALSE, value |-> 0]
       ELSE [ok |-> TRUE, value |-> IntVal(fields[2])]

\* a faulty parse: a field that is no number gives its last digit
StepFieldLastDigit(path) ==
    LET fields == Split(path, "_")
        f == fields[Len(fields) - 1]
    IN IF Len(fields) < 2 THEN [ok |-> FALSE, value |-> 0]
       ELSE IF IntOk(f) THEN [ok |-> TRUE, value |-> IntVal(f)]
       ELSE IF Len(f) > 0 /\ IsDigit(f[Len(f)])
            THEN [ok |-> TRUE, value |-> DigitVal(f[Len(f)])]
       ELSE [ok |-> FALSE, value |-> 0]

\* lines 64-65: int(load_file.split('_')[-2]); ok is FALSE where the index
\* or the conversion raises
StepField(path) ==
    LET fields == Split(path, "_")
    IN IF Len(fields) < 2 THEN [ok |-> FALSE, value |-> 0]
       ELSE IF ~IntOk(fields[Len(fields) - 1]) THEN [ok |-> FALSE, value |-> 0]
       ELSE [ok |-> TRUE, value |-> IntVal(fields[Len(fields) - 1])]

\* lines 61-68: the try block on a file that exists
LoadCheckpoint(fsys, path, P0) ==
    IF ~fsys[path].readable
    THEN [Fresh(P0) EXCEPT !.found = TRUE, !.caught = TRUE]
    ELSE LET res == load_state_dict(P0, fsys[path].dict)
             step == StepField(path)
             after == [Fresh(P0) EXCEPT !.found = TRUE, !.read = TRUE,
                                        !.weights = res.weights]
         IN IF res.raised THEN [after EXCEPT !.caught = TRUE]
            ELSE IF ~step.ok THEN [after EXCEPT !.loaded = TRUE, !.caught = TRUE]
            ELSE [after EXCEPT !.loaded = TRUE, !.parsed = TRUE,
                               !.global_step = step.value]

\* a faulty constructor: the step is read off the name of a missing file
DQN_initStepOfName(fsys, load_file, P0) ==
    IF ~load_file.set THEN Fresh(P0)
    ELSE IF ~Exists(fsys, load_file.path)
         THEN [Fresh(P0) EXCEPT !.global_step = StepField(load_file.path).value]
    ELSE LoadCheckpoint(fsys, load_file.path, P0)

DQN_init(fsys, load_file, P0) ==
    IF ~load_file.set THEN Fresh(P0)
    ELSE IF ~Exists(fsys, load_file.path) THEN Fresh(P0)
    ELSE LoadCheckpoint(fsys, load_file.path, P0)

(***************************************************************************)
(* The inputs of the model.                                                *)
(***************************************************************************)
\* a network of the constructor's shapes, its values set by a seed
InitParams(seed, width, height) ==
    [conv1_weight |-> T([co \in 1..Conv1Out |-> T([ci \in 1..InChannels |->
         T([kh \in 1..KernelSize |-> T([kw \in 1..KernelSize |->
             IF ci = 1 THEN seed.conv ELSE 0])])])]),
     conv1_bias   |-> T([co \in 1..Conv1Out |-> 0]),
     conv2_weight |-> T([co \in 1..Conv2Out |-> T([ci \in 1..Conv1Out |->
         T([kh \in 1..KernelSize |-> T([kw \in 1..KernelSize |->
             IF ci = 1 THEN seed.conv ELSE 0])])])]),
     conv2_bias   |-> T([co \in 1..Conv2Out |-> 0]),
     fc3_weight   |-> T([j \in 1..Fc3Out |-> T([i \in 1..(Conv2Out * width * height) |->
             IF i = 1 THEN seed.fc3 ELSE 0])]),
     fc3_bias     |-> T([j \in 1..Fc3Out |-> 0]),
     fc4_weight   |-> T([k \in 1..NumActions |-> T([j \in 1..Fc3Out |->
             IF j = 1 THEN seed.fc4[k] ELSE 0])]),
     fc4_bias     |-> T([k \in 1..NumActions |-> seed.bias[k]])]

ZeroSeed == [conv |-> 0, fc3 |-> 0, fc4 |-> <<0, 0, 0, 0>>, bias |-> <<0, 0, 0, 0>>]
SeedA    == [conv |-> 1, fc3 |-> 1, fc4 |-> <<1, 0, 0 - 1, 2>>, bias |-> <<0, 1, 0, 0>>]
SeedB    == [conv |-> 1, fc3 |-> 2, fc4 |-> <<0, 1, 1, 0 - 1>>, bias |-> <<2, 0, 0 - 1, 0>>]

\* the seeds of the random initialisation
Seeds == {ZeroSeed, SeedA}

\* the grid sizes of the constructor
Widths == {1, 2}
Heights == {1}

\* an observation (height x width x channel): v in channel 1, u elsewhere
Obs(width, height, v, u) ==
    T([h \in 1..height |-> T([w \in 1..width |-> T([c \in 1..InChannels |->
        IF c = 1 THEN v ELSE u])])])

OneHot(k) == T([j \in 1..NumActions |-> IF j = k THEN 1 ELSE 0])

\* the batch of a sequence of transitions
MkBatch(rows) ==
    [s |-> T([i \in 1..Len(rows) |-> rows[i].s]),
     a |-> T([i \in 1..Len(rows) |-> rows[i].a]),
     t |-> T([i \in 1..Len(rows) |-> rows[i].t]),
     n |-> T([i \in 1..Len(rows) |-> rows[i].n]),
     r |-> T([i \in 1..Len(rows) |-> rows[i].r])]

\* the observations of a grid size: small values, a value near the largest
\* float, and a NaN
Observations(width, height) ==
    {Obs(width, height, 1, 0), Obs(width, height, 3, 1),
     Obs(width, height, MaxFinite - 10, 0), Obs(width, height, NaN, 0)}

\* the transitions of the replay memory
Rows(width, height) ==
    {[s |-> s, a |-> OneHot(k), t |-> t, n |-> n, r |-> r] :
        s \in {Obs(width, height, 1, 0), Obs(width, height, MaxFinite - 10, 0)},
        k \in 1..NumActions, t \in {0, 1},
        n \in Observations(width, height), r \in {0 - 1, 2}}

\* a transition that does not end the episode, and one that does
RowA(width, height) ==
    [s |-> Obs(width, height, 1, 0), a |-> OneHot(1), t |-> 0,
     n |-> Obs(width, height, 3, 1), r |-> 2]
RowB(width, height) ==
    [s |-> Obs(width, height, 3, 1), a |-> OneHot(3), t |-> 1,
     n |-> Obs(width, height, 1, 0), r |-> 0 - 1]

\* a batch of four transitions, one of them the end of an episode
FourRows(width, height) ==
    <<RowA(width, height), RowB(width, height),
      [RowA(width, height) EXCEPT !.a = OneHot(2)],
      [RowA(width, height) EXCEPT !.a = OneHot(4), !.r = 0 - 1]>>

\* the batches of one train_step on a new trainer: every single transition,
\* pairs of transitions and a batch of four
StepBatches(width, height) ==
    {MkBatch(<<row>>) : row \in Rows(width, height)}
    \cup {MkBatch(<<RowA(width, height), row>>) :
            row \in {rw \in Rows(width, height) : rw.r = 2 /\ rw.a = OneHot(2)}}
    \cup {MkBatch(FourRows(width, height))}

\* the batches of a trainer's life: a batch of two transitions, and a batch
\* whose observations have another grid size than the network
Batches(width, height) ==
    {MkBatch(<<RowA(width, height), RowB(width, height)>>),
     MkBatch(<<RowA(width + 1, height)>>)}

\* the checkpoint paths of the model
PathModel   == <<"m", "-", "s", "_", "1", "0", "0", "0", "0", "_", "1", "0", "0">>
PathInDir   == <<"d", "/", "7", "_", "x">>
PathNoField == <<"c", "k", "p", "t">>
PathCorrupt == <<"b", "a", "d", "_", "5", "_", "x">>
PathWide    == <<"w", "_", "8", "_", "x">>
PathMissing == <<"g", "o", "n", "e", "_", "3", "_", "x">>

\* the files that exist before the program runs: checkpoints of networks of
\* width 1 and of width 2, and a file that is no checkpoint
FilesAtStart ==
    LET narrow == [readable |-> TRUE, dict |-> state_dict(InitParams(SeedB, 1, 1))]
        wide   == [readable |-> TRUE, dict |-> state_dict(InitParams(SeedB, 2, 1))]
    IN [p \in {PathModel, PathInDir, PathNoField, PathCorrupt, PathWide} |->
          IF p = PathCorrupt THEN Corrupt
          ELSE IF p = PathWide THEN wide
          ELSE narrow]

\* the prefixes and the suffix of the names the caller saves under:
\* <prefix>_<global_step>_<suffix>
Prefixes == {<<"m">>, <<"a", "_", "b", "/", "m">>}
Suffixes == {<<"x">>}

CkptName(prefix, step, suffix) == prefix \o <<"_">> \o IntStr(step) \o <<"_">> \o suffix

\* the paths the caller saves to, named by the convention
SavePaths(step) ==
    {CkptName(prefix, step, suffix) : prefix \in Prefixes, suffix \in Suffixes}

None == [set |-> FALSE, path |-> << >>]
Some(path) == [set |-> TRUE, path |-> path]

(***************************************************************************)
(* The state.                                                              *)
(***************************************************************************)
VARIABLES
    fs,            \* the file system: path -> file
    pc,            \* "none" before the first construction, then "ready"
    params,        \* the constructor's params: width, height, lr, discount, load_file
    weights,       \* the network's parameters
    grads,         \* the parameters' .grad, as the last backward left them
    optimizer,     \* Adam's state: step count and first moments
    global_step,   \* self.global_step
    init_weights,  \* the random initialisation of this trainer
    ctor,          \* what __init__ did: found, read, loaded, parsed, caught
    last,          \* the last call on the trainer: operation, arguments, outcome
    q_next,        \* the locals of the last train_step call
    q_t,
    yj,
    acts,          \* the forward pass on bat_s; acts[b].q is q_pred_all_actions[b]
    q_pred,
    loss,
    start_step,    \* global_step as __init__ left it
    returned,      \* the train_step calls of this trainer that returned
    saved,         \* what save_ckpt wrote: path -> the saver's parameters,
                   \* grid size and global_step at the call
    outs,          \* what the forward calls returned since the parameters
                   \* were last set, in order: records of input x and output q
    calls          \* the operations made in this behaviour

locals == <<q_next, q_t, yj, acts, q_pred, loss>>

vars == <<fs, pc, params, weights, grads, optimizer, global_step, init_weights,
          ctor, last, q_next, q_t, yj, acts, q_pred, loss, start_step,
          returned, saved, outs, calls>>

NoCall == [op |-> "none", raised |-> FALSE, bat |-> MkBatch(<< >>),
           before |-> InitParams(ZeroSeed, 1, 1), path |-> << >>, ret_step |-> 0]

NoLocals ==
    /\ q_next = << >>
    /\ q_t = << >>
    /\ yj = << >>
    /\ acts = << >>
    /\ q_pred = << >>
    /\ loss = [num |-> 0, den |-> 1]

\* a faulty increment: the counter goes down
IncrementDown(step) == step - 1

\* a faulty increment: the counter stands still
IncrementNever(step) == step

\* line 145: self.global_step += 1
Increment(step) == step + 1

(***************************************************************************)
(* The state of the game's other modules.  Each specification below runs   *)
(* one module and leaves the others as they start.                         *)
(***************************************************************************)
VARIABLES
    keysdown,      \* graphicsUtils._keysdown: the keys held down
    keyswaiting,   \* graphicsUtils._keyswaiting: the keys pressed since the
                   \* last keys_waiting()
    keys,          \* KeyboardAgent.keys
    lastMove,      \* KeyboardAgent.lastMove
    asked          \* the last getAction call: its legal actions, the agent's
                   \* lastMove before it, whether it found no key (quiet),
                   \* what it returned and whether it raised

keyboardVars == <<keysdown, keyswaiting, keys, lastMove, asked>>

NotAsked == [op |-> "none", legal |-> {}, lastMove |-> "Stop", quiet |-> TRUE,
             ret |-> "Stop", raised |-> FALSE]

\* keyboardAgents.py lines 18-23 and graphicsUtils.py lines 17-18: a new
\* agent, no key touched
NoKeyboard ==
    /\ keysdown = {}
    /\ keyswaiting = {}
    /\ keys = {}
    /\ lastMove = "Stop"
    /\ asked = NotAsked

VARIABLES
    turn,          \* PacmanGraphics.turn
    agentCounter,  \* PacmanGraphics.agentCounter
    numAgents,     \* len(state.agentStates) of the game on display
    updates,       \* the update calls since initialize
    drawn          \* the boards printed since initialize

displayVars == <<turn, agentCounter, numAgents, updates, drawn>>

\* textDisplay.py lines 45-52: a new PacmanGraphics, no game on display
NoDisplay ==
    /\ turn = 0
    /\ agentCounter = 0
    /\ numAgents = 0
    /\ updates = 0
    /\ drawn = 0

VARIABLES
    layout,        \* the Layout constructed last
    cwd,           \* the process's current working directory
    files,         \* the layout files: absolute path -> lines
    got            \* the last operation, if it was a getLayout call: name,
                   \* back, the directory it was called in, the directories
                   \* it searched and what it returned

layoutVars == <<layout, cwd, files, got>>

NoLayoutBuilt == [built |-> FALSE, raised |-> FALSE, layoutText |-> << >>,
                  width |-> 0, height |-> 0, walls |-> {}, food |-> {},
                  capsules |-> << >>, agentPositions |-> << >>, numGhosts |-> 0,
                  totalFood |-> 0]

NotGot == [op |-> "none", name |-> << >>, back |-> 0, from |-> << >>,
           found |-> FALSE, lines |-> << >>, searched |-> << >>, cwd |-> << >>,
           raised |-> FALSE]

\* no Layout constructed, the process in the root directory, no layout file
NoLayout ==
    /\ layout = NoLayoutBuilt
    /\ cwd = << >>
    /\ files = << >>
    /\ got = NotGot

gameVars == <<keyboardVars, displayVars, layoutVars>>

NoGame == NoKeyboard /\ NoDisplay /\ NoLayout

\* no train_step call has left its locals
ClearLocals ==
    /\ q_next' = << >>
    /\ q_t' = << >>
    /\ yj' = << >>
    /\ acts' = << >>
    /\ q_pred' = << >>
    /\ loss' = [num |-> 0, den |-> 1]

Init ==
    /\ fs = FilesAtStart
    /\ pc = "none"
    /\ params = [width |-> 1, height |-> 1, lr |-> 1, discount |-> 1, load_file |-> None]
    /\ weights = InitParams(ZeroSeed, 1, 1)
    /\ grads = InitParams(ZeroSeed, 1, 1)
    /\ optimizer = [step |-> 0, exp_avg |-> InitParams(ZeroSeed, 1, 1)]
    /\ global_step = 0
    /\ init_weights = InitParams(ZeroSeed, 1, 1)
    /\ ctor = DQN_init(FilesAtStart, None, InitParams(ZeroSeed, 1, 1))
    /\ last = NoCall
    /\ NoLocals
    /\ start_step = 0
    /\ returned = 0
    /\ saved = << >>
    /\ outs = << >>
    /\ calls = 0
    /\ NoGame

\* the discount factors of the constructor
Discounts == {2}

\* DQN(params): a new trainer replaces the one before
New(width, height, discount, load_file, seed) ==
    /\ calls < MaxCalls
    /\ init_weights' = InitParams(seed, width, height)
    /\ ctor' = DQN_init(fs, load_file, init_weights')
    /\ params' = [width |-> width, height |-> height, lr |-> 1,
                  discount |-> discount, load_file |-> load_file]
    /\ weights' = ctor'.weights
    /\ grads' = ZeroLike(init_weights')
    /\ optimizer' = [step |-> 0, exp_avg |-> ZeroLike(init_weights')]
    /\ global_step' = ctor'.global_step
    /\ start_step' = ctor'.global_step
    /\ pc' = "ready"
    /\ last' = NoCall
    /\ ClearLocals
    /\ returned' = 0
    /\ outs' = << >>
    /\ calls' = calls + 1
    /\ UNCHANGED <<fs, saved>>

\* a faulty train_step: the step is counted before the batch is looked at
TrainStepCountingFirst(bat) ==
    /\ pc = "ready"
    /\ calls < MaxCalls
    /\ IF ~BatchOk(weights, bat)
       THEN /\ ClearLocals
            /\ last' = [op |-> "train_step", raised |-> TRUE, bat |-> bat,
                        before |-> weights, path |-> << >>, ret_step |-> 0]
            /\ global_step' = Increment(global_step)
            /\ UNCHANGED <<weights, grads, optimizer, returned, outs>>
       ELSE /\ q_next' = QNext(weights, bat.n)
            /\ q_t' = QMax(q_next')
            /\ yj' = Target(bat.r, bat.t, params.discount, q_t')
            /\ acts' = ForwardAll(weights, bat.s)
            /\ q_pred' = QPred(QPredAll(acts'), bat.a)
            /\ loss' = MSELoss(q_pred', yj')
            /\ grads' = ZeroGradBackward(grads, weights, bat, params.discount,
                                         acts', q_next', q_pred', yj')
            /\ optimizer' = [step |-> optimizer.step + 1,
                             exp_avg |-> AddParams(optimizer.exp_avg, grads')]
            /\ weights' = AdamStep(weights, optimizer'.exp_avg, params.lr)
            /\ global_step' = Increment(global_step)
            /\ returned' = returned + 1
            /\ last' = [op |-> "train_step", raised |-> FALSE, bat |-> bat,
                        before |-> weights, path |-> << >>,
                        ret_step |-> global_step']
            /\ outs' = << >>
    /\ calls' = calls + 1
    /\ UNCHANGED <<fs, pc, params, init_weights, ctor, start_step, saved>>

\* train_step(bat_s, bat_a, bat_t, bat_n, bat_r); a batch the tensor
\* operations reject raises before anything is changed
TrainStep(bat) ==
    /\ pc = "ready"
    /\ calls < MaxCalls
    /\ IF ~BatchOk(weights, bat)
       THEN /\ ClearLocals
            /\ last' = [op |-> "train_step", raised |-> TRUE, bat |-> bat,
                        before |-> weights, path |-> << >>, ret_step |-> 0]
            /\ UNCHANGED <<weights, grads, optimizer, global_step, returned, outs>>
       ELSE /\ q_next' = QNext(weights, bat.n)
            /\ q_t' = QMax(q_next')
            /\ yj' = Target(bat.r, bat.t, params.discount, q_t')
            /\ acts' = ForwardAll(weights, bat.s)
            /\ q_pred' = QPred(QPredAll(acts'), bat.a)
            /\ loss' = MSELoss(q_pred', yj')
            /\ grads' = ZeroGradBackward(grads, weights, bat, params.discount,
                                         acts', q_next', q_pred', yj')
            /\ optimizer' = [step |-> optimizer.step + 1,
                             exp_avg |-> AddParams(optimizer.exp_avg, grads')]
            /\ weights' = AdamStep(weights, optimizer'.exp_avg, params.lr)
            /\ global_step' = Increment(global_step)
            /\ returned' = returned + 1
            /\ last' = [op |-> "train_step", raised |-> FALSE, bat |-> bat,
                        before |-> weights, path |-> << >>,
                        ret_step |-> global_step']
            /\ outs' = << >>
    /\ calls' = calls + 1
    /\ UNCHANGED <<fs, pc, params, init_weights, ctor, start_step, saved>>

\* a faulty save_ckpt: it takes the step of the name it saves under
SaveCkptParsing(filename) ==
    /\ pc = "ready"
    /\ calls < MaxCalls
    /\ fs' = torch_save(fs, state_dict(weights), filename)
    /\ saved' = [p \in (DOMAIN saved) \cup {filename} |->
                   IF p = filename
                   THEN [weights |-> weights, width |-> params.width,
                         height |-> params.height, step |-> global_step]
                   ELSE saved[p]]
    /\ last' = [NoCall EXCEPT !.op = "save_ckpt", !.path = filename, !.before = weights]
    /\ global_step' = StepField(filename).value
    /\ calls' = calls + 1
    /\ UNCHANGED <<pc, params, weights, grads, optimizer,
                   init_weights, ctor, start_step, returned, locals, outs>>

\* save_ckpt(filename)
SaveCkpt(filename) ==
    /\ pc = "ready"
    /\ calls < MaxCalls
    /\ fs' = torch_save(fs, state_dict(weights), filename)
    /\ saved' = [p \in (DOMAIN saved) \cup {filename} |->
                   IF p = filename
                   THEN [weights |-> weights, width |-> params.width,
                         height |-> params.height, step |-> global_step]
                   ELSE saved[p]]
    /\ last' = [NoCall EXCEPT !.op = "save_ckpt", !.path = filename, !.before = weights]
    /\ calls' = calls + 1
    /\ UNCHANGED <<pc, params, weights, grads, optimizer, global_step,
                   init_weights, ctor, start_step, returned, locals, outs>>

\* a faulty forward: it counts as a step
ForwardCounting(x) ==
    /\ pc = "ready"
    /\ calls < MaxCalls
    /\ last' = [NoCall EXCEPT !.op = "forward", !.raised = ~ForwardOk(weights, x),
                              !.before = weights]
    /\ outs' = IF ForwardOk(weights, x)
               THEN Append(outs, [x |-> x, q |-> forward(weights, x)]) ELSE outs
    /\ global_step' = global_step + 1
    /\ start_step' = start_step + 1
    /\ calls' = calls + 1
    /\ UNCHANGED <<fs, pc, params, weights, grads, optimizer,
                   init_weights, ctor, returned, saved, locals>>

\* forward(x) on a tensor [channel][height][width]; the layers raise on an
\* input of another shape
Forward(x) ==
    /\ pc = "ready"
    /\ calls < MaxCalls
    /\ IF ~ForwardOk(weights, x)
       THEN /\ last' = [NoCall EXCEPT !.op = "forward", !.raised = TRUE,
                                      !.before = weights]
            /\ outs' = outs
       ELSE /\ last' = [NoCall EXCEPT !.op = "forward", !.before = weights]
            /\ outs' = Append(outs, [x |-> x, q |-> forward(weights, x)])
    /\ calls' = calls + 1
    /\ UNCHANGED <<fs, pc, params, weights, grads, optimizer, global_step,
                   init_weights, ctor, start_step, returned, saved, locals>>

\* the load_file settings of the constructor: None, a path without a file,
\* or the path of a file
LoadFiles == {None, Some(PathMissing)} \cup {Some(p) : p \in DOMAIN fs}

Next ==
    \/ \E width \in Widths, height \in Heights, discount \in Discounts,
          load_file \in LoadFiles, seed \in Seeds :
            New(width, height, discount, load_file, seed) /\ UNCHANGED gameVars
    \/ \E bat \in Batches(params.width, params.height) :
          TrainStep(bat) /\ UNCHANGED gameVars
    \/ \E filename \in SavePaths(global_step) :
          SaveCkpt(filename) /\ UNCHANGED gameVars

Spec == Init /\ [][Next]_vars

(***************************************************************************)
(* The four operations on trainers of one grid size, with checkpoints      *)
(* saved under names that do not tell the trainer's step.                  *)
(***************************************************************************)
PathFive == <<"p", "_", "5", "_", "x">>
PathNine == <<"p", "_", "9", "_", "x">>

\* the file names of save_ckpt: any the caller likes
AliasPaths == {PathFive, PathNine}

\* an observation without its last channel
DropChannel(obs) ==
    T([h \in 1..Len(obs) |-> T([w \in 1..Len(obs[h]) |->
        SubSeq(obs[h][w], 1, InChannels - 1)])])

\* batches whose fields do not fit each other or the network: a reward,
\* terminal or action field of one row beside fields of two, a reward field
\* of three rows, states of five channels
BadBatches(width, height) ==
    LET two == MkBatch(<<RowA(width, height), RowB(width, height)>>)
        three == MkBatch(<<RowA(width, height), RowB(width, height),
                           RowA(width, height)>>)
    IN {[two EXCEPT !.r = <<2>>],
        [two EXCEPT !.t = <<1>>],
        [two EXCEPT !.a = <<OneHot(2)>>],
        [two EXCEPT !.r = three.r],
        [two EXCEPT !.s = <<DropChannel(two.s[1]), DropChannel(two.s[2])>>]}

\* the batches of train_step: those of Batches and the bad ones
OpsBatches(width, height) == Batches(width, height) \cup BadBatches(width, height)

\* the inputs of forward: an image of the network's grid, and a wider one
OpsInputs == {Permute(Obs(1, 1, 3, 1)), Permute(Obs(2, 1, 1, 0))}

NextOps ==
    \/ \E load_file \in {None, Some(PathModel)} \cup {Some(p) : p \in DOMAIN saved} :
          New(1, 1, 2, load_file, SeedA) /\ UNCHANGED gameVars
    \/ \E bat \in OpsBatches(params.width, params.height) :
          TrainStep(bat) /\ UNCHANGED gameVars
    \/ \E filename \in AliasPaths : SaveCkpt(filename) /\ UNCHANGED gameVars
    \/ \E x \in OpsInputs : Forward(x) /\ UNCHANGED gameVars

SpecOps == Init /\ [][NextOps]_vars

(***************************************************************************)
(* One train_step call on a newly constructed trainer, over all batches.   *)
(***************************************************************************)
StepSeeds == {ZeroSeed, SeedA, SeedB}
StepDiscounts == {0, 2}

InitStep ==
    \E seed \in StepSeeds, discount \in StepDiscounts :
        /\ fs = FilesAtStart
        /\ pc = "ready"
        /\ params = [width |-> 1, height |-> 1, lr |-> 1, discount |-> discount,
                     load_file |-> None]
        /\ weights = InitParams(seed, 1, 1)
        /\ grads = ZeroLike(InitParams(seed, 1, 1))
        /\ optimizer = [step |-> 0, exp_avg |-> ZeroLike(InitParams(seed, 1, 1))]
        /\ global_step = 0
        /\ init_weights = InitParams(seed, 1, 1)
        /\ ctor = DQN_init(FilesAtStart, None, InitParams(seed, 1, 1))
        /\ last = NoCall
        /\ NoLocals
        /\ start_step = 0
        /\ returned = 0
        /\ saved = << >>
        /\ outs = << >>
        /\ calls = 1
        /\ NoGame

FirstStep(bat) == last.op = "none" /\ TrainStep(bat)

NextStep ==
    \E bat \in StepBatches(params.width, params.height) :
        FirstStep(bat) /\ UNCHANGED gameVars

SpecStep == InitStep /\ [][NextStep]_vars
(***************************************************************************)
(* Trainers built from checkpoints under any file name (SpecNames): the    *)
(* file system also holds a checkpoint whose name has a signed number in   *)
(* its second-to-last field.                                               *)
(***************************************************************************)
PathMinus == <<"n", "_", "-", "3", "_", "x">>

FilesNamed ==
    [p \in {PathModel, PathMinus, PathNoField, PathInDir} |->
        [readable |-> TRUE, dict |-> state_dict(InitParams(SeedB, 1, 1))]]

InitNames ==
    /\ fs = FilesNamed
    /\ pc = "none"
    /\ params = [width |-> 1, height |-> 1, lr |-> 1, discount |-> 1, load_file |-> None]
    /\ weights = InitParams(ZeroSeed, 1, 1)
    /\ grads = InitParams(ZeroSeed, 1, 1)
    /\ optimizer = [step |-> 0, exp_avg |-> InitParams(ZeroSeed, 1, 1)]
    /\ global_step = 0
    /\ init_weights = InitParams(ZeroSeed, 1, 1)
    /\ ctor = DQN_init(FilesNamed, None, InitParams(ZeroSeed, 1, 1))
    /\ last = NoCall
    /\ NoLocals
    /\ start_step = 0
    /\ returned = 0
    /\ saved = << >>
    /\ outs = << >>
    /\ calls = 0
    /\ NoGame

NextNames ==
    \/ \E load_file \in LoadFiles, seed \in Seeds :
          New(1, 1, 2, load_file, seed) /\ UNCHANGED gameVars
    \/ \E bat \in Batches(params.width, params.height) :
          TrainStep(bat) /\ UNCHANGED gameVars

SpecNames == InitNames /\ [][NextNames]_vars

(***************************************************************************)
(* keyboardAgents.py: KeyboardAgent, with the key events of                *)
(* graphicsUtils.py (SpecKeys).  A move is one of the five strings of      *)
(* game.Directions; a list of keys or of legal actions is read only by     *)
(* membership and emptiness, so it is kept as a set.                       *)
(***************************************************************************)
allVars == <<vars, gameVars>>

\* the most keys held down or waiting at once
MaxHeld == 2

\* the key symbols of the events: WEST_KEY, NORTH_KEY, STOP_KEY and an arrow
\* key
KeySyms == {"a", "w", "q", "Right"}

\* what state.getLegalActions(index) returns
LegalSets ==
    {{"North", "South", "East", "West", "Stop"}, {"North", "South", "Stop"},
     {"East", "West"}, {"North"}, {}}

\* graphicsUtils._keypress
KeyPress(k) ==
    /\ Cardinality(keysdown \cup keyswaiting \cup {k}) <= MaxHeld
    /\ keysdown' = keysdown \cup {k}
    /\ keyswaiting' = keyswaiting \cup {k}
    /\ UNCHANGED <<keys, lastMove, asked>>

\* graphicsUtils._keyrelease
KeyRelease(k) ==
    /\ k \in keysdown
    /\ keysdown' = keysdown \ {k}
    /\ UNCHANGED <<keyswaiting, keys, lastMove, asked>>

\* KeyboardAgent.getMove: of the directions whose key is down and which are
\* legal, the last one tested wins
getMove(ks, legal) ==
    IF ("s" \in ks \/ "Down" \in ks) /\ "South" \in legal THEN "South"
    ELSE IF ("w" \in ks \/ "Up" \in ks) /\ "North" \in legal THEN "North"
    ELSE IF ("d" \in ks \/ "Right" \in ks) /\ "East" \in legal THEN "East"
    ELSE IF ("a" \in ks \/ "Left" \in ks) /\ "West" \in legal THEN "West"
    ELSE "Stop"

\* a faulty update of self.keys: the keys of this call, even when none
HeldKeysOfThisCall(old, gathered) == gathered

\* lines 35-37: keys = keys_waiting() + keys_pressed(); if keys: self.keys = keys
HeldKeys(old, gathered) == IF gathered # {} THEN gathered ELSE old

\* lines 39-48: the move before the test that it is legal
ChosenMove(ks, prev, legal) ==
    LET move == getMove(ks, legal)
        repeated == IF move = "Stop" /\ prev \in legal THEN prev ELSE move
    IN IF "q" \in ks /\ "Stop" \in legal THEN "Stop" ELSE repeated

\* a faulty fallback: the move is returned as it is
FallbackNever(move, legal) == {move}

\* lines 50-52: what getAction may return; random.choice(legal) is any of
\* the legal actions
Fallback(move, legal) == IF move \in legal THEN {move} ELSE legal

\* KeyboardAgent.getAction(state), state.getLegalActions(index) being legal;
\* random.choice of an empty list raises IndexError
GetAction(legal) ==
    /\ keys' = HeldKeys(keys, keyswaiting \cup keysdown)
    /\ keyswaiting' = {}
    /\ \E move \in Fallback(ChosenMove(keys', lastMove, legal), legal) \cup {"raise"} :
          /\ (move = "raise") = (Fallback(ChosenMove(keys', lastMove, legal), legal) = {})
          /\ lastMove' = IF move = "raise" THEN lastMove ELSE move
          /\ asked' = [op |-> "getAction", legal |-> legal, lastMove |-> lastMove,
                        quiet |-> keyswaiting \cup keysdown = {},
                        ret |-> move, raised |-> move = "raise"]
    /\ UNCHANGED keysdown

NextKeys ==
    \/ \E k \in KeySyms : KeyPress(k) /\ UNCHANGED <<vars, displayVars, layoutVars>>
    \/ \E k \in KeySyms : KeyRelease(k) /\ UNCHANGED <<vars, displayVars, layoutVars>>
    \/ \E legal \in LegalSets :
          GetAction(legal) /\ UNCHANGED <<vars, displayVars, layoutVars>>

SpecKeys == Init /\ [][NextKeys]_allVars

(***************************************************************************)
(* textDisplay.py: PacmanGraphics (SpecText).  The display counts the      *)
(* agents' moves; what it prints is kept as the count of boards printed.   *)
(***************************************************************************)
\* the most agents of a game, and the most update calls of a game
MaxAgents == 4
MaxUpdates == 24

\* line 4
DRAW_EVERY == 1

\* PacmanGraphics.initialize(state), for a game of n agents: draw, pause,
\* and the counters set to 0
Initialize(n) ==
    /\ numAgents' = n
    /\ turn' = 0
    /\ agentCounter' = 0
    /\ updates' = 0
    /\ drawn' = 1

\* a faulty counter: it does not wrap
NextCounterNoWrap(counter, n) == counter + 1

\* line 75: (self.agentCounter + 1) % numAgents
NextCounter(counter, n) == (counter + 1) % n

\* PacmanGraphics.update(state): over is state._win or state._lose
Update(over) ==
    /\ numAgents > 0
    /\ updates < MaxUpdates
    /\ agentCounter' = NextCounter(agentCounter, numAgents)
    /\ turn' = IF agentCounter' = 0 THEN turn + 1 ELSE turn
    /\ drawn' = drawn
                 + (IF agentCounter' = 0 /\ turn' % DRAW_EVERY = 0 THEN 1 ELSE 0)
                 + (IF over THEN 1 ELSE 0)
    /\ updates' = updates + 1
    /\ UNCHANGED numAgents

NextText ==
    \/ \E n \in 1..MaxAgents :
          Initialize(n) /\ UNCHANGED <<vars, keyboardVars, layoutVars>>
    \/ \E over \in BOOLEAN :
          Update(over) /\ UNCHANGED <<vars, keyboardVars, layoutVars>>

SpecText == Init /\ [][NextText]_allVars

(***************************************************************************)
(* layout.py: class Layout (SpecLayout).  A layout text is a sequence of   *)
(* rows, top row first, a row a sequence of characters; a grid cell is     *)
(* <<x, y>>, counted from 0 as the code counts.                            *)
(***************************************************************************)
\* the longest row of a layout text
MaxCols == 2

\* the layout texts: of no row, one row or two rows, the rows of any
\* lengths, over the characters of a first row and of a second row
Texts ==
    LET TopChars == {"%", ".", "o", "P", "2", " "}
        BottomChars == {"%", "P", "G"}
        RowsOver(chars) == UNION {[1..w -> chars] : w \in 0..MaxCols}
    IN {<< >>}
       \cup {<<r>> : r \in RowsOver(TopChars)}
       \cup {<<r1, r2>> : r1 \in RowsOver(TopChars), r2 \in RowsOver(BottomChars)}

\* a faulty row index: the text is read bottom row first
TextRowUnflipped(y, height) == y

\* line 156: the index maxY - y of the row of text for grid row y
TextRow(y, height) == (height - 1) - y

\* Layout.processLayoutChar: what a character puts into its cell
processLayoutChar(char) ==
    IF char = "%" THEN [kind |-> "wall", id |-> 0]
    ELSE IF char = "." THEN [kind |-> "food", id |-> 0]
    ELSE IF char = "o" THEN [kind |-> "capsule", id |-> 0]
    ELSE IF char = "P" THEN [kind |-> "agent", id |-> 0]
    ELSE IF char = "G" THEN [kind |-> "agent", id |-> 1]
    ELSE IF char \in {"1", "2", "3", "4"} THEN [kind |-> "agent", id |-> DigitVal(char)]
    ELSE [kind |-> "none", id |-> 0]

\* list.sort() on the (id, (x, y)) tuples: by id, then x, then y
SortAgents(agents) ==
    LET Less(e, f) ==
            \/ e.id < f.id
            \/ e.id = f.id /\ e.pos[1] < f.pos[1]
            \/ e.id = f.id /\ e.pos[1] = f.pos[1] /\ e.pos[2] < f.pos[2]
        S == {agents[i] : i \in 1..Len(agents)}
    IN T([i \in 1..Len(agents) |->
          CHOOSE e \in S : Cardinality({f \in S : Less(f, e)}) = i - 1])

\* Layout.processLayoutText on a text all of whose rows have width
\* characters or more: the cells are visited row by row from grid row 0
processLayoutText(layoutText, width, height) ==
    LET cells == T([i \in 1..(width * height) |->
                     [pos |-> <<(i - 1) % width, (i - 1) \div width>>,
                      put |-> processLayoutChar(
                                 layoutText[TextRow((i - 1) \div width, height) + 1]
                                           [((i - 1) % width) + 1])]])
        IsCapsule(c) == c.put.kind = "capsule"
        IsAgent(c) == c.put.kind = "agent"
        capsuleCells == SelectSeq(cells, IsCapsule)
        agentCells == SelectSeq(cells, IsAgent)
        sorted == SortAgents(T([i \in 1..Len(agentCells) |->
                     [id |-> agentCells[i].put.id, pos |-> agentCells[i].pos]]))
    IN [walls |-> {cells[i].pos : i \in {j \in 1..Len(cells) : cells[j].put.kind = "wall"}},
        food |-> {cells[i].pos : i \in {j \in 1..Len(cells) : cells[j].put.kind = "food"}},
        capsules |-> T([i \in 1..Len(capsuleCells) |-> capsuleCells[i].pos]),
        agentPositions |-> T([i \in 1..Len(sorted) |-> <<sorted[i].id = 0, sorted[i].pos>>]),
        numGhosts |-> Cardinality({i \in 1..Len(agentCells) : agentCells[i].put.id # 0})]

\* Layout(layoutText): layoutText[0] of an empty text, and a row shorter
\* than the first, raise IndexError
Layout(layoutText) ==
    IF Len(layoutText) = 0 THEN [NoLayoutBuilt EXCEPT !.raised = TRUE]
    ELSE LET width == Len(layoutText[1])
             height == Len(layoutText)
         IN IF \E r \in 1..height : Len(layoutText[r]) < width
            THEN [NoLayoutBuilt EXCEPT !.raised = TRUE, !.layoutText = layoutText]
            ELSE LET p == processLayoutText(layoutText, width, height)
                 IN [built |-> TRUE, raised |-> FALSE, layoutText |-> layoutText,
                     width |-> width, height |-> height, walls |-> p.walls,
                     food |-> p.food, capsules |-> p.capsules,
                     agentPositions |-> p.agentPositions,
                     numGhosts |-> p.numGhosts,
                     totalFood |-> Cardinality(p.food)]

\* the first Layout the program constructs
NewLayout(layoutText) ==
    /\ layout = NoLayoutBuilt
    /\ layout' = Layout(layoutText)
    /\ UNCHANGED <<cwd, files, got>>

NextLayout ==
    \E layoutText \in Texts :
        NewLayout(layoutText) /\ UNCHANGED <<vars, keyboardVars, displayVars>>

SpecLayout == Init /\ [][NextLayout]_allVars

(***************************************************************************)
(* layout.py: getLayout and tryToLoad (SpecFind).  A directory is the      *)
(* sequence of the names on its path from the root, a file path a          *)
(* directory and a file name; names are sequences of characters.           *)
(***************************************************************************)
\* the deepest directory, the largest back, and the most layout files
MaxDepth == 2
MaxBack == 3
MaxFiles == 2

\* lines 198-201: the file name of a layout name, '.lay' added to a name
\* that does not end with it
FileName(name) ==
    IF Len(name) >= 4 /\ SubSeq(name, Len(name) - 3, Len(name)) = <<".", "l", "a", "y">>
    THEN name
    ELSE name \o <<".", "l", "a", "y">>

\* tryToLoad(fullname), fullname relative to the directory dir: the Layout
\* of the file's stripped lines, NoLayoutBuilt for None
tryToLoad(fsys, dir, fullname) ==
    IF (dir \o fullname) \notin DOMAIN fsys THEN NoLayoutBuilt
    ELSE Layout(T([i \in 1..Len(fsys[dir \o fullname]) |->
                    Strip(fsys[dir \o fullname][i])]))

\* lines 198-201: tryToLoad('layouts/' + file) or tryToLoad(file)
LoadHere(fsys, dir, name) ==
    IF tryToLoad(fsys, dir, <<<<"l", "a", "y", "o", "u", "t", "s">>, FileName(name)>>)
          # NoLayoutBuilt
    THEN tryToLoad(fsys, dir, <<<<"l", "a", "y", "o", "u", "t", "s">>, FileName(name)>>)
    ELSE tryToLoad(fsys, dir, <<FileName(name)>>)

\* a faulty return: the process stays where the search ended
ChdirNowhere(curdir, now) == now

\* line 207: os.chdir(curdir)
ChdirBack(curdir, now) == curdir

\* lines 204-207 around the inner call: an exception of the inner call
\* leaves through this one, past the os.chdir(curdir)
SearchedAbove(dir, inner) ==
    [layout |-> inner.layout,
     cwd |-> IF inner.layout.raised THEN inner.cwd ELSE ChdirBack(dir, inner.cwd),
     searched |-> <<dir>> \o inner.searched]

\* getLayout(name, back) called in the directory dir: the Layout it returns
\* (or the exception of Layout()), the directory it leaves the process in,
\* and the directories it searched; os.chdir('..') goes to the parent, and
\* the parent of the root is the root
RECURSIVE getLayout(_, _, _, _)
getLayout(fsys, dir, name, back) ==
    IF LoadHere(fsys, dir, name) = NoLayoutBuilt /\ back > 0
    THEN SearchedAbove(dir,
             getLayout(fsys, SubSeq(dir, 1, IF Len(dir) = 0 THEN 0 ELSE Len(dir) - 1),
                       name, back - 1))
    ELSE [layout |-> LoadHere(fsys, dir, name), cwd |-> dir, searched |-> <<dir>>]

\* a layout file is written
WriteLayout(path, lines) ==
    /\ path \notin DOMAIN files
    /\ Cardinality(DOMAIN files) < MaxFiles
    /\ files' = [p \in (DOMAIN files) \cup {path} |->
                   IF p = path THEN lines ELSE files[p]]
    /\ got' = NotGot
    /\ UNCHANGED <<layout, cwd>>

\* the process changes its directory
Chdir(dir) ==
    /\ cwd' = dir
    /\ got' = NotGot
    /\ UNCHANGED <<layout, files>>

\* getLayout(name, back)
GetLayout(name, back) ==
    /\ got' = [op |-> "getLayout", name |-> name, back |-> back, from |-> cwd,
               found |-> getLayout(files, cwd, name, back).layout.built,
               lines |-> getLayout(files, cwd, name, back).layout.layoutText,
               searched |-> getLayout(files, cwd, name, back).searched,
               cwd |-> getLayout(files, cwd, name, back).cwd,
               raised |-> getLayout(files, cwd, name, back).layout.raised]
    /\ cwd' = got'.cwd
    /\ UNCHANGED <<layout, files>>

\* the directories are a chain below the root; a layout file is m.lay,
\* under layouts/ or beside it, of one line or of none; the names asked for
\* are m and m.lay
NextFind ==
    LET Directories == {T([i \in 1..d |-> <<"d">>]) : d \in 0..MaxDepth}
        InLayouts == <<<<"l", "a", "y", "o", "u", "t", "s">>, FileName(<<"m">>)>>
        Beside == <<FileName(<<"m">>)>>
    IN \/ \E dir \in Directories, fullname \in {InLayouts, Beside},
             lines \in {<<<<"P", "G", " ">>>>, << >>} :
             WriteLayout(dir \o fullname, lines)
               /\ UNCHANGED <<vars, keyboardVars, displayVars>>
       \/ \E dir \in Directories :
             Chdir(dir) /\ UNCHANGED <<vars, keyboardVars, displayVars>>
       \/ \E name \in {<<"m">>, FileName(<<"m">>)}, back \in 0..MaxBack :
             GetLayout(name, back) /\ UNCHANGED <<vars, keyboardVars, displayVars>>

SpecFind == Init /\ [][NextFind]_allVars

(***************************************************************************)
(* Properties of train_step, on one call on a new trainer (SpecStep).      *)
(***************************************************************************)
\* the last call was a train_step that returned
StepReturned == last.op = "train_step" /\ ~last.raised

\* the index of the action a one-hot row takes
Taken(row) == CHOOSE k \in 1..NumActions : row[k] = 1

\* the largest of the Q-values of a row, as torch.max gives it: NaN if one
\* of them is NaN
RowMax(q) ==
    IF \E k \in 1..NumActions : IsNaN(q[k]) THEN NaN
    ELSE CHOOSE v \in {q[k] : k \in 1..NumActions} :
            \A k \in 1..NumActions : v >= q[k]

\* C1: for every row i with terminal[i] = 1, the Bellman target of the row
\* equals reward[i] exactly, whatever nextState[i] is.
C1_TerminalTargetIsReward ==
    StepReturned =>
        \A i \in 1..Len(yj) : last.bat.t[i] = 1 => yj[i] = last.bat.r[i]

\* C2: for every row i the target equals
\* reward[i] + (1 - terminal[i]) * discount * qMax[i], where qMax[i] is the
\* maximum over the 4 actions of the network's output on nextState[i].
C2_TargetFormula ==
    StepReturned =>
        /\ Len(yj) = Len(last.bat.r)
        /\ \A i \in 1..Len(yj) :
              LET qMax == RowMax(forward(last.before, Permute(last.bat.n[i])))
              IN yj[i] = FAdd(last.bat.r[i],
                              FMul(FMul(FSub(1, last.bat.t[i]), params.discount),
                                   qMax))

\* C2 at work: a row that does not end the episode, and one that does,
\* whose next state has a finite value the discount does not cancel
C2_Witness ==
    /\ StepReturned
    /\ params.discount = 2
    /\ \E i \in 1..Len(yj) :
          /\ last.bat.t[i] = 0
          /\ IsFinite(yj[i])
          /\ yj[i] > last.bat.r[i]
    /\ \E i \in 1..Len(yj) :
          /\ last.bat.t[i] = 1
          /\ IsFinite(q_t[i])
          /\ q_t[i] > 0
          /\ yj[i] = last.bat.r[i]

\* C3: for every batch whose action rows are one-hot and every row i, the
\* sum over actions of qPred[i] * action[i] equals the network's raw output
\* qPred[i][k] at the index k where action[i][k] = 1.
C3_OneHotSelects ==
    StepReturned =>
        \A i \in 1..Len(q_pred) :
            q_pred[i] = forward(last.before, Permute(last.bat.s[i]))[Taken(last.bat.a[i])]

\* the rows of the loss: q_pred and yj, broadcast against each other
LossRows == 1..BroadcastLen(Len(q_pred), Len(yj))
PredOf(i) == q_pred[Ix(i, Len(q_pred))]
TargetOf(i) == yj[Ix(i, Len(yj))]

\* a float that is 0 or above: not NaN, possibly inf
NonNegative(x) == ~IsNaN(x) /\ x >= 0

RECURSIVE IntSum(_)
IntSum(v) == IF v = << >> THEN 0 ELSE v[1] + IntSum(Tail(v))

\* the exact sum of the squared errors of finite predictions and targets
SumOfSquares ==
    IntSum([i \in 1..Len(yj) |-> (q_pred[i] - yj[i]) * (q_pred[i] - yj[i])])

\* C13: the loss train_step returns is the mean over the batch rows of
\* (predictedForTaken[i] - target[i])^2.  For a trainer without load file
\* whose network gives 0 on every input, one train_step on a batch of 4
\* transitions, one terminal and three not, returns the loss
\* (sum of reward[i]^2) / 4 and the step 1.
C13_LossIsMean ==
    (StepReturned /\ Len(q_pred) = Len(yj) /\ Len(yj) = Len(last.bat.s)) =>
        /\ IF \A i \in 1..Len(yj) : IsFinite(q_pred[i]) /\ IsFinite(yj[i])
           THEN IF SumOfSquares <= MaxFinite
                THEN loss.den > 0 /\ loss.num * Len(yj) = SumOfSquares * loss.den
                ELSE loss.num = PInf
           ELSE ~IsFinite(loss.num)
        /\ (/\ last.before = InitParams(ZeroSeed, params.width, params.height)
            /\ ~params.load_file.set
            /\ last.bat = MkBatch(FourRows(params.width, params.height))) =>
               /\ loss.den > 0
               /\ loss.num * 4 =
                     IntSum([i \in 1..4 |-> last.bat.r[i] * last.bat.r[i]]) * loss.den
               /\ global_step = 1
               /\ last.ret_step = 1

\* C13 at work: the batch of four on the network that gives 0
C13_Witness ==
    /\ StepReturned
    /\ last.before = InitParams(ZeroSeed, params.width, params.height)
    /\ last.bat = MkBatch(FourRows(params.width, params.height))
    /\ Cardinality({i \in 1..4 : last.bat.t[i] = 1}) = 1
    /\ q_pred = <<0, 0, 0, 0>>
    /\ loss = [num |-> 10, den |-> 4]
    /\ global_step = 1

\* C14: the forward pass on nextState and the target made from it are
\* computed in the no-gradient block and are no part of the gradient path:
\* backward goes through the forward pass on state and predictedForTaken
\* only, and the target is a fixed number to it.
C14_TargetNotInGraph ==
    StepReturned =>
        /\ acts = ForwardAll(last.before, last.bat.s)
        /\ yj = Target(last.bat.r, last.bat.t, params.discount,
                       QMax(QNext(last.before, last.bat.n)))
        /\ grads = GradSum(last.before, acts,
                           GradQAll(GradQPred(q_pred, yj), Len(last.bat.s), last.bat.a),
                           Len(last.bat.s))
        /\ (Len(q_pred) = Len(yj) /\ Len(yj) = Len(last.bat.a)) =>
              \A k \in 1..NumActions :
                  grads.fc4_bias[k] =
                      FSumSeq([i \in 1..Len(yj) |->
                                  FMul(FSub(q_pred[i], yj[i]), last.bat.a[i][k])])

\* C14 at work: a transition that goes on, with an error, whose next state
\* has its largest value at an action other than the one taken; the bias
\* of that action gets no gradient
C14_Witness ==
    /\ StepReturned
    /\ params.discount = 2
    /\ Len(yj) = 1
    /\ last.bat.t[1] = 0
    /\ IsFinite(q_pred[1]) /\ IsFinite(yj[1]) /\ q_pred[1] # yj[1]
    /\ \A k \in 1..NumActions : IsFinite(q_next[1][k])
    /\ last.bat.a[1][ArgMax(q_next[1])] = 0
    /\ grads.fc4_bias[ArgMax(q_next[1])] = 0
    /\ \E k \in 1..NumActions : grads.fc4_bias[k] # 0

(***************************************************************************)
(* Properties of the trainer's life (Spec).                                *)
(***************************************************************************)
\* the constructor has returned and nothing was called since
JustBuilt == pc = "ready" /\ last.op = "none"

\* the constructor was given a path, and a file is there
FileGiven == params.load_file.set /\ Exists(fs, params.load_file.path)

\* os.path.basename
Basename(path) ==
    LET slashes == {i \in 1..Len(path) : path[i] = "/"}
        cut == CHOOSE i \in slashes : \A j \in slashes : j <= i
    IN IF slashes = {} THEN path ELSE SubSeq(path, cut + 1, Len(path))

\* the networks a random initialisation gives
Untrained(width, height) ==
    {InitParams(seed, width, height) : seed \in {ZeroSeed, SeedA, SeedB}}

\* C4: after K train_step calls that returned, on a trainer whose
\* global_step after construction was S, global_step = S + K, and the step
\* the K-th call returned is S + K.
C4_StepCount ==
    pc = "ready" =>
        /\ global_step = start_step + returned
        /\ StepReturned => last.ret_step = start_step + returned

\* C4 at work: the second update of a trainer resumed at step 10000
C4_Witness ==
    /\ StepReturned
    /\ start_step = 10000
    /\ returned = 2
    /\ last.ret_step = 10002

\* C5: when the checkpoint at the configured path exists and deserializes,
\* global_step after construction is the integer in the second-to-last
\* underscore-delimited field of the file's base name, whatever directory
\* the path names.
C5_StepOfBaseName ==
    (JustBuilt /\ FileGiven /\ ctor.loaded
        /\ StepField(Basename(params.load_file.path)).ok) =>
        global_step = StepField(Basename(params.load_file.path)).value

\* C6: right after construction the trainer is fresh (global_step 0 and the
\* initial parameters, nothing loaded) or resumed (global_step parsed from
\* the name and the checkpoint's parameters); there is no third outcome.
C6_FreshOrResumed ==
    JustBuilt =>
        \/ global_step = 0 /\ weights = init_weights
        \/ /\ FileGiven
           /\ fs[params.load_file.path].readable
           /\ state_dict(weights) = fs[params.load_file.path].dict
           /\ StepField(params.load_file.path).ok
           /\ global_step = StepField(params.load_file.path).value

\* C7: with load_file None, or with a path where no file exists, the
\* constructor returns a fresh trainer: global_step 0, the initial
\* parameters, and no exception on the way.
C7_FreshWithoutFile ==
    (JustBuilt /\ ~FileGiven) =>
        /\ global_step = 0
        /\ weights = init_weights
        /\ ~ctor.caught

\* C7 at work: a path without a file, on a network that is not all zero
C7_Witness ==
    /\ JustBuilt
    /\ params.load_file = Some(PathMissing)
    /\ ~Exists(fs, PathMissing)
    /\ weights = InitParams(SeedA, params.width, params.height)

\* C8: when the file exists and its deserialization fails (a corrupt file,
\* another architecture), the constructor returns a fresh trainer:
\* global_step 0 and the initial parameters, none of them overwritten.
C8_FreshAfterFailedLoad ==
    (JustBuilt /\ FileGiven /\ ~ctor.loaded) =>
        /\ global_step = 0
        /\ weights = init_weights

\* C9: after save_ckpt(path) on a trainer with parameters P, a new network
\* of the same width and height built with load_file = path has parameters
\* P, and the forward outputs of P on every input.
C9_ParamsRoundTrip ==
    (JustBuilt /\ FileGiven /\ params.load_file.path \in DOMAIN saved) =>
        LET was == saved[params.load_file.path]
        IN (was.width = params.width /\ was.height = params.height) =>
              /\ weights = was.weights
              /\ \A obs \in Observations(params.width, params.height) :
                    forward(weights, Permute(obs)) = forward(was.weights, Permute(obs))

\* C9 at work: the saved parameters had been trained, and the new network
\* was initialised otherwise
C9_Witness ==
    /\ JustBuilt
    /\ FileGiven
    /\ params.load_file.path \in DOMAIN saved
    /\ saved[params.load_file.path].width = params.width
    /\ saved[params.load_file.path].height = params.height
    /\ saved[params.load_file.path].weights \notin Untrained(params.width, params.height)
    /\ weights = saved[params.load_file.path].weights
    /\ weights # init_weights

\* the path is <prefix>_<step>_<suffix>
NamedByStep(path, step) ==
    \E prefix \in Prefixes, suffix \in Suffixes : path = CkptName(prefix, step, suffix)

\* C10: a trainer at global_step G saves to <prefix>_<G>_<suffix>; a new
\* trainer built with that path as load_file has global_step G, for every
\* prefix, those with underscores included.
C10_StepRoundTrip ==
    (JustBuilt /\ FileGiven /\ params.load_file.path \in DOMAIN saved) =>
        LET was == saved[params.load_file.path]
        IN NamedByStep(params.load_file.path, was.step) => global_step = was.step

\* C10, for a new trainer of the saver's width and height: it has
\* global_step G, for every prefix, those with underscores included.
C10_StepRoundTripSameSize ==
    (JustBuilt /\ FileGiven /\ params.load_file.path \in DOMAIN saved) =>
        LET was == saved[params.load_file.path]
        IN (/\ NamedByStep(params.load_file.path, was.step)
            /\ was.width = params.width
            /\ was.height = params.height) => global_step = was.step

\* C10 at work: a prefix with an underscore and a step that is not 0
C10_Witness ==
    /\ JustBuilt
    /\ FileGiven
    /\ params.load_file.path \in DOMAIN saved
    /\ \E suffix \in Suffixes :
          params.load_file.path =
              CkptName(<<"a", "_", "b", "/", "m">>,
                       saved[params.load_file.path].step, suffix)
    /\ saved[params.load_file.path].width = params.width
    /\ saved[params.load_file.path].height = params.height
    /\ saved[params.load_file.path].step > 0
    /\ global_step = saved[params.load_file.path].step

(***************************************************************************)
(* Properties of the four operations (SpecOps).                            *)
(***************************************************************************)
\* the step field of the names of AliasPaths
AliasStep(path) == IF path = PathFive THEN 5 ELSE 9

\* the keys of a checkpoint, in order
KeysOf(dict) == [i \in 1..Len(dict) |-> dict[i].key]

\* Adam's state as the constructor leaves it
FreshOptimizer == [step |-> 0, exp_avg |-> ZeroLike(weights)]

\* C11: a checkpoint holds the network parameters and nothing else, neither
\* global_step nor the optimizer's state.  The global_step of a trainer
\* resumed from it is the step field of the file name, whatever global_step
\* the saving trainer had; one blob under two names with different step
\* fields gives the same parameters and different global_step values.
C11_StepOnlyInName ==
    /\ \A p \in DOMAIN saved :
          /\ DOMAIN fs[p] = {"readable", "dict"}
          /\ KeysOf(fs[p].dict) = ParamKeys
          /\ load_state_dict(ZeroLike(saved[p].weights), fs[p].dict) =
                [weights |-> saved[p].weights, raised |-> FALSE]
    /\ (JustBuilt /\ FileGiven /\ params.load_file.path \in DOMAIN saved) =>
          /\ weights = saved[params.load_file.path].weights
          /\ global_step = AliasStep(params.load_file.path)
          /\ optimizer = FreshOptimizer
    /\ \A p1 \in DOMAIN saved, p2 \in DOMAIN saved :
          (fs[p1] = fs[p2] /\ p1 # p2) =>
              LET one == DQN_init(fs, Some(p1), init_weights)
                  two == DQN_init(fs, Some(p2), init_weights)
              IN /\ one.weights = two.weights
                 /\ one.global_step = AliasStep(p1)
                 /\ two.global_step = AliasStep(p2)
                 /\ one.global_step # two.global_step

\* the fields of a batch have one length, the states and next states are
\* of the network's grid with 6 channels, the action rows have 4 entries
WellFormed(bat) ==
    /\ Len(bat.a) = Len(bat.s) /\ Len(bat.t) = Len(bat.s)
    /\ Len(bat.n) = Len(bat.s) /\ Len(bat.r) = Len(bat.s)
    /\ \A b \in 1..Len(bat.a) : Len(bat.a[b]) = NumActions
    /\ \A b \in 1..Len(bat.s) :
          /\ Len(bat.s[b]) = params.height
          /\ \A h \in 1..Len(bat.s[b]) :
                /\ Len(bat.s[b][h]) = params.width
                /\ \A w \in 1..Len(bat.s[b][h]) : Len(bat.s[b][h][w]) = InChannels
    /\ \A b \in 1..Len(bat.n) :
          /\ Len(bat.n[b]) = params.height
          /\ \A h \in 1..Len(bat.n[b]) :
                /\ Len(bat.n[b][h]) = params.width
                /\ \A w \in 1..Len(bat.n[b][h]) : Len(bat.n[b][h][w]) = InChannels

\* C15: a malformed batch (fields of mismatched lengths, a wrong channel
\* count, wrong spatial dimensions) makes train_step raise instead of
\* returning a step and a loss, for every such mismatch, a reward, terminal
\* or action field of another length than the states included.
C15_MalformedRaises ==
    (last.op = "train_step" /\ ~WellFormed(last.bat)) => last.raised

\* C16: forward has no side effects: a forward call, on any input and
\* between any other operations, leaves the parameters, the optimizer's
\* state and global_step as they were, and two forward calls on one input
\* with no update between them return the same values.
C16_ForwardIsPure ==
    /\ [][last'.op = "forward" =>
            /\ weights' = weights
            /\ grads' = grads
            /\ optimizer' = optimizer
            /\ global_step' = global_step]_vars
    /\ [](\A i \in 1..Len(outs), j \in 1..Len(outs) :
            outs[i].x = outs[j].x => outs[i].q = outs[j].q)

\* C16 at work: after an update, two forward calls on one input
C16_Witness ==
    /\ last.op = "forward" /\ ~last.raised
    /\ returned = 1
    /\ global_step = start_step + 1
    /\ Len(outs) = 2
    /\ outs[1].x = outs[2].x
    /\ outs[1].q = outs[2].q
    /\ outs[1].q = forward(weights, outs[1].x)

\* C17: global_step never decreases: every operation on a constructed
\* trainer (an update that returns, an update that raises, a forward call,
\* a save_ckpt call) leaves it at its value or above.
C17_StepNeverDecreases ==
    [][(pc = "ready" /\ last'.op # "none") => global_step' >= global_step]_vars

\* C17 at work: an update, a save and a forward call on one trainer
C17_Witness ==
    /\ last.op = "forward"
    /\ returned = 1
    /\ DOMAIN saved # {}
    /\ calls = 4
    /\ global_step = start_step + 1

\* C18: a trainer goes from fresh to resumed at most once, in its
\* construction: no operation after it loads parameters or parses the step
\* again; save_ckpt leaves the parameters, the optimizer's state and
\* global_step as they were; only an update changes the parameters and
\* global_step.
C18_OnlyUpdateMutates ==
    [][(pc = "ready" /\ last'.op # "none") =>
          /\ ctor' = ctor /\ start_step' = start_step
          /\ last'.op = "save_ckpt" =>
                /\ weights' = weights
                /\ grads' = grads
                /\ optimizer' = optimizer
                /\ global_step' = global_step
          /\ (weights' # weights \/ global_step' # global_step) =>
                /\ last'.op = "train_step" /\ ~last'.raised
                /\ global_step' = global_step + 1]_vars

\* C18 at work: a trainer resumed at step 5 has saved under a name of
\* step 9 and is at step 5
C18_Witness ==
    /\ last.op = "save_ckpt"
    /\ last.path = PathNine
    /\ params.load_file = Some(PathFive)
    /\ ctor.parsed
    /\ start_step = 5
    /\ global_step = 5
    /\ weights = last.before

\* C19: one train_step call computes the target, the prediction and the
\* loss, clears the gradients, runs backward, makes exactly one optimizer
\* step and increments global_step, in this order.  Target and prediction
\* come from one version of the parameters, the one before the optimizer
\* step, and the loss returned is the one computed before they change.
C19_OrderOfTheUpdate ==
    StepReturned =>
        /\ yj = Target(last.bat.r, last.bat.t, params.discount,
                       QMax(QNext(last.before, last.bat.n)))
        /\ q_pred = QPred(QPredAll(ForwardAll(last.before, last.bat.s)), last.bat.a)
        /\ loss = MSELoss(q_pred, yj)
        /\ grads = BackwardPass(last.before, last.bat, params.discount,
                                ForwardAll(last.before, last.bat.s), q_next, q_pred, yj)
        /\ optimizer.step = returned
        /\ weights = AdamStep(last.before, optimizer.exp_avg, params.lr)
        /\ last.ret_step = global_step
        /\ global_step = start_step + returned

\* C19 at work: the second update of a trainer; its loss is that of the
\* parameters before the step, not of those after it
C19_Witness ==
    /\ StepReturned
    /\ returned = 2
    /\ optimizer.step = 2
    /\ weights # last.before
    /\ \E k \in 1..NumActions : grads.fc4_bias[k] # 0
    /\ loss # MSELoss(QPred(QPredAll(ForwardAll(weights, last.bat.s)), last.bat.a),
                      Target(last.bat.r, last.bat.t, params.discount,
                             QMax(QNext(weights, last.bat.n))))

\* C20: a train_step call that raises leaves global_step and the
\* parameters exactly as they were before the call; global_step counts the
\* calls that returned and no others.
C20_RaisedUpdateChangesNothing ==
    /\ [][(last'.op = "train_step" /\ last'.raised) =>
            /\ weights' = weights
            /\ global_step' = global_step]_vars
    /\ [](pc = "ready" => global_step = start_step + returned)

\* C20 at work: an update that returned, then one that raised
C20_Witness ==
    /\ last.op = "train_step" /\ last.raised
    /\ ~WellFormed(last.bat)
    /\ returned = 1
    /\ global_step = start_step + 1
    /\ weights = last.before
    /\ weights # ctor.weights

\* C11 at work: a trainer at step 10000 saved one blob under two names, and
\* the new trainer has the step of the name it was given
C11_Witness ==
    /\ JustBuilt
    /\ params.load_file = Some(PathNine)
    /\ PathFive \in DOMAIN saved
    /\ fs[PathFive] = fs[PathNine]
    /\ saved[PathNine].step = 10000
    /\ weights = saved[PathNine].weights
    /\ weights # init_weights
    /\ global_step = 9

(***************************************************************************)
(* Properties of train_step over the trainer's life (Spec): the layout of  *)
(* the tensors it gives to the network.                                    *)
(***************************************************************************)
\* the channel-first tensor of a channel-last observation, element by element
ChannelFirst(obs) ==
    T([c \in 1..Len(obs[1][1]) |-> T([h \in 1..Len(obs) |->
        T([w \in 1..Len(obs[1]) |-> obs[h][w][c]])])])

\* C21: train_step transposes state and nextState from channel-last to
\* channel-first before any forward pass: the element at (b, h, w, c) of the
\* field is the element at (b, c, h, w) of the tensor given to the network,
\* and action, terminal and reward are used in the order they were given.
C21_ChannelFirst ==
    (last.op = "train_step" /\ ~last.raised) =>
        /\ Len(acts) = Len(last.bat.s)
        /\ \A b \in 1..Len(acts) :
              LET x == acts[b].x
                  o == last.bat.s[b]
              IN /\ <<Len(x), Len(x[1]), Len(x[1][1])>>
                      = <<Len(o[1][1]), Len(o), Len(o[1])>>
                 /\ \A h \in 1..Len(o), w \in 1..Len(o[1]), c \in 1..Len(o[1][1]) :
                       x[c][h][w] = o[h][w][c]
        /\ Len(q_next) = Len(last.bat.n)
        /\ \A b \in 1..Len(q_next) :
              q_next[b] = forward(last.before, ChannelFirst(last.bat.n[b]))
        /\ q_pred = QPred(QPredAll(acts), last.bat.a)
        /\ yj = Target(last.bat.r, last.bat.t, params.discount, QMax(q_next))

\* a train_step returned on observations two cells wide whose channels differ
C21_Witness ==
    /\ last.op = "train_step" /\ ~last.raised
    /\ params.width = 2
    /\ \E b \in 1..Len(last.bat.s) :
          /\ last.bat.s[b][1][1][1] # last.bat.s[b][1][1][2]
          /\ acts[b].x[1][1][2] = last.bat.s[b][1][2][1]
          /\ acts[b].x[1][1][2] # last.bat.s[b][1][1][2]


\* the observation has the constructor's height and width and six channels
FitsGrid(o) ==
    /\ Len(o) = params.height
    /\ \A h \in 1..Len(o) :
          /\ Len(o[h]) = params.width
          /\ \A w \in 1..Len(o[h]) : Len(o[h][w]) = InChannels

\* C22: on every batch of B observations of six channels and the
\* constructor's width and height, forward returns B rows of 4 values: both
\* convolutions keep the height and the width, so the flattened features of
\* an element number conv2's channels x width x height, which is the input
\* size of fc3.
C22_ForwardShapes ==
    (/\ last.op = "train_step"
     /\ \A b \in 1..Len(last.bat.s) : FitsGrid(last.bat.s[b])
     /\ \A b \in 1..Len(last.bat.n) : FitsGrid(last.bat.n[b])) =>
        /\ ~last.raised
        /\ Len(acts) = Len(last.bat.s)
        /\ Len(q_next) = Len(last.bat.n)
        /\ \A b \in 1..Len(q_next) : Len(q_next[b]) = 4
        /\ \A b \in 1..Len(acts) :
              /\ Len(acts[b].q) = 4
              /\ Shape4(<<acts[b].z1>>)
                    = <<1, Len(weights.conv1_weight), params.height, params.width>>
              /\ Shape4(<<acts[b].a2>>)
                    = <<1, Len(weights.conv2_weight), params.height, params.width>>
              /\ Len(acts[b].f)
                    = Len(weights.conv2_weight) * params.width * params.height
              /\ Len(acts[b].f) = Len(weights.fc3_weight[1])

\* a train_step on two observations two cells wide returned two rows of four
C22_Witness ==
    /\ last.op = "train_step" /\ ~last.raised
    /\ params.width = 2
    /\ Len(last.bat.s) = 2
    /\ FitsGrid(last.bat.s[1]) /\ FitsGrid(last.bat.s[2])
    /\ Len(acts) = 2
    /\ Len(acts[1].q) = 4 /\ Len(acts[2].q) = 4
    /\ Len(acts[1].f) = 2 * Len(weights.conv2_weight)


(***************************************************************************)
(* Two train_step calls from the same trainer state (SpecStep).            *)
(***************************************************************************)
\* the batches differ at most in the next states of rows that end an episode
SameButTerminalNext(bat1, bat2) ==
    /\ bat1.s = bat2.s /\ bat1.a = bat2.a /\ bat1.t = bat2.t /\ bat1.r = bat2.r
    /\ Len(bat1.n) = Len(bat2.n)
    /\ Len(bat1.t) = Len(bat1.n)
    /\ \A i \in 1..Len(bat1.n) : bat1.t[i] # 1 => bat1.n[i] = bat2.n[i]

\* a train_step on bat, from a trainer of parameters P, gradients g0, first
\* moments m0 and step count step, returns the pair (ret_step, ret_loss) and
\* leaves the parameters left; the locals are computed one after the other,
\* as lines 115-146 compute them
OutcomeIs(P, g0, m0, step, bat, discount, lr, ret_step, ret_loss, left) ==
    \A qn \in {QNext(P, bat.n)} :
    \A y \in {Target(bat.r, bat.t, discount, QMax(qn))} :
    \A av \in {ForwardAll(P, bat.s)} :
    \A qp \in {QPred(QPredAll(av), bat.a)} :
    \A g \in {ZeroGradBackward(g0, P, bat, discount, av, qn, qp, y)} :
    \A m \in {AddParams(m0, g)} :
        /\ Increment(step) = ret_step
        /\ MSELoss(qp, y) = ret_loss
        /\ AdamStep(P, m, lr) = left

\* C23: two train_step calls from the same trainer state, on batches that
\* differ only in nextState[i] of rows with terminal[i] = 1, return the same
\* (step, loss) pair and leave the same parameters.
C23_TerminalNextStateHidden ==
    StepReturned =>
        \A bat2 \in StepBatches(params.width, params.height) :
            (SameButTerminalNext(last.bat, bat2) /\ BatchOk(last.before, bat2)) =>
                OutcomeIs(last.before, ZeroLike(last.before), ZeroLike(last.before),
                          start_step, bat2, params.discount, params.lr,
                          last.ret_step, loss, weights)


(***************************************************************************)
(* Properties of the step count under any file name (SpecNames).           *)
(***************************************************************************)
\* C24: global_step is a non-negative integer in every reachable state: no
\* checkpoint file name the constructor accepts, and no sequence of
\* train_step calls, makes it negative.
C24_StepNonNegative == global_step >= 0

\* the path has fewer than two underscore-delimited fields, or its
\* second-to-last field is not the text of an integer
NoStepInName(path) ==
    LET fields == Split(path, "_")
    IN Len(fields) < 2 \/ ~IntOk(fields[Len(fields) - 1])

\* C25: when the checkpoint file deserializes but the configured path has
\* no integer in its second-to-last underscore-delimited field (fewer than
\* two fields, or a field that is no number), the constructor still returns
\* without raising, and global_step is 0.
C25_NoStepInNameStartsAtZero ==
    (JustBuilt /\ FileGiven /\ ctor.loaded /\ NoStepInName(params.load_file.path)) =>
        /\ pc = "ready"
        /\ ctor.caught
        /\ global_step = 0

\* a trainer built from a checkpoint whose name has the field "d/7", or from
\* one whose name is a single field: the parameters are loaded, the step is 0
C25_Witness ==
    /\ JustBuilt /\ FileGiven /\ ctor.loaded
    /\ params.load_file.path \in {PathInDir, PathNoField}
    /\ Len(Split(params.load_file.path, "_")) = IF params.load_file.path = PathInDir THEN 2 ELSE 1
    /\ state_dict(weights) = fs[params.load_file.path].dict
    /\ weights # init_weights
    /\ global_step = 0


(***************************************************************************)
(* Properties of KeyboardAgent.getAction (SpecKeys).                       *)
(***************************************************************************)
\* the last call was a getAction that returned
Answered == asked.op = "getAction" /\ ~asked.raised

\* C26: getAction always returns a legal move: for every non-empty set of
\* legal actions, whatever keys are or were pressed and whatever the move
\* before, the move returned is one of state.getLegalActions(index), and
\* lastMove is the move returned.
C26_MoveIsLegal ==
    (asked.op = "getAction" /\ asked.legal # {}) =>
        /\ ~asked.raised
        /\ asked.ret \in asked.legal
        /\ lastMove = asked.ret

\* the key for North is held, North and the move before are not legal: the
\* move returned is a legal one all the same
C26_Witness ==
    /\ Answered
    /\ asked.legal = {"East", "West"}
    /\ keys = {"w"}
    /\ asked.lastMove = "North"
    /\ asked.ret = "West"
    /\ lastMove = "West"

\* the direction a key asks for
KeyDirection(k) ==
    IF k \in {"a", "Left"} THEN "West"
    ELSE IF k \in {"d", "Right"} THEN "East"
    ELSE IF k \in {"w", "Up"} THEN "North"
    ELSE IF k \in {"s", "Down"} THEN "South"
    ELSE IF k = "q" THEN "Stop"
    ELSE "none"

\* C27: across successive getAction calls: when no held key maps to a legal
\* direction the agent repeats its previous move if that is still legal;
\* when the STOP key is held and STOP is legal the result is STOP, whatever
\* the other keys and the previous move; and on a call where no key event
\* arrived the held keys of the earlier call stay in effect.
C27_KeysAcrossCalls ==
    /\ [](Answered =>
            /\ ((\A k \in keys : KeyDirection(k) \notin asked.legal)
                    /\ asked.lastMove \in asked.legal)
                  => asked.ret = asked.lastMove
            /\ ("q" \in keys /\ "Stop" \in asked.legal) => asked.ret = "Stop")
    /\ [][((\E legal \in LegalSets : GetAction(legal))
              /\ keyswaiting = {} /\ keysdown = {}) => keys' = keys]_allVars

\* a call that found no key event: the key for North of an earlier call is
\* still in effect, North is not legal, and the move before is repeated
C27_Witness ==
    /\ Answered
    /\ asked.quiet
    /\ keys = {"w"}
    /\ asked.legal = {"East", "West"}
    /\ asked.lastMove = "East"
    /\ asked.ret = "East"


(***************************************************************************)
(* Properties of the text display (SpecText).                              *)
(***************************************************************************)
\* C28: for a game of n agents, after initialize and then any k calls of
\* update, agentCounter = k mod n (so within 0..n-1) and turn = floor(k / n);
\* turn goes up by exactly 1 on each call that completes a round of the
\* agents' moves and stays on every other call.
C28_TurnCounting ==
    /\ [](numAgents > 0 =>
            /\ agentCounter = updates % numAgents
            /\ agentCounter \in 0..(numAgents - 1)
            /\ turn = updates \div numAgents)
    /\ [][(numAgents > 0 /\ updates' = updates + 1) =>
             turn' = IF (updates + 1) % numAgents = 0 THEN turn + 1 ELSE turn]_allVars

\* the seventh update of a game of three agents: two rounds and one move
C28_Witness ==
    /\ numAgents = 3
    /\ updates = 7
    /\ agentCounter = 1
    /\ turn = 2


(***************************************************************************)
(* Properties of getLayout (SpecFind).                                     *)
(***************************************************************************)
\* the directory i levels above dir, the root at the most
Ancestor(dir, i) == SubSeq(dir, 1, IF Len(dir) > i THEN Len(dir) - i ELSE 0)

LayoutsDir == <<"l", "a", "y", "o", "u", "t", "s">>
FileAsked == <<"m", ".", "l", "a", "y">>

\* a layout file of the name asked for is in the directory, under layouts/
\* or beside it
HasLayoutFile(dir) ==
    \/ (dir \o <<LayoutsDir, FileAsked>>) \in DOMAIN files
    \/ (dir \o <<FileAsked>>) \in DOMAIN files

\* C29: getLayout(name, back) searches the current directory and at most
\* back parent directories, ends for every back >= 0, returns None when no
\* layout file is found at any level, and on return the process's current
\* working directory is the one it was when getLayout was called.
C29_SearchAndReturnHome ==
    /\ \A name \in {<<"m">>, FileAsked}, back \in 0..MaxBack :
          Len(getLayout(files, cwd, name, back).searched) \in 1..(back + 1)
    /\ (got.op = "getLayout" /\ ~got.raised) =>
          /\ Len(got.searched) \in 1..(got.back + 1)
          /\ \A i \in 1..Len(got.searched) :
                got.searched[i] = Ancestor(got.from, i - 1)
          /\ (\A i \in 0..got.back : ~HasLayoutFile(Ancestor(got.from, i)))
                => ~got.found
          /\ got.found => HasLayoutFile(got.searched[Len(got.searched)])
          /\ cwd = got.from

\* a call two directories below the root that found the layout under the
\* root's layouts/ and came back
C29_Witness ==
    /\ got.op = "getLayout" /\ ~got.raised
    /\ Len(got.from) = 2
    /\ got.back = 3
    /\ got.found
    /\ got.lines = <<<<"P", "G">>>>
    /\ Len(got.searched) = 3
    /\ got.searched[3] = << >>
    /\ DOMAIN files = {<<LayoutsDir, FileAsked>>}
    /\ cwd = got.from

(***************************************************************************)
(* Properties of Layout construction (SpecLayout).                         *)
(***************************************************************************)
\* the places <<r, x>> of a text (row r from the top, column x, from 0)
\* whose character is one of chars
PlacesOf(text, chars) ==
    {<<r, x>> \in (0..(Len(text) - 1)) \X (0..MaxCols) :
        x < Len(text[r + 1]) /\ text[r + 1][x + 1] \in chars}

\* the grid cell the claim gives the character at row r, column x
CellOf(place, height) == <<place[2], (height - 1) - place[1]>>

\* the agent id of a character of the text
IdOfChar(char) == IF char = "P" THEN 0 ELSE IF char = "G" THEN 1 ELSE DigitVal(char)

GhostChars == {"G", "1", "2", "3", "4"}

\* what C30 states of a constructed Layout
AsTheTextSays ==
    LET text == layout.layoutText
        h == layout.height
        ap == layout.agentPositions
        Cells(chars) == {CellOf(pl, h) : pl \in PlacesOf(text, chars)}
        CharAtCell(c) == text[(h - 1) - c[2] + 1][c[1] + 1]
    IN /\ \A i \in 1..Len(ap), j \in 1..Len(ap) :
             i < j => /\ ap[j][1] => ap[i][1]
                      /\ IdOfChar(CharAtCell(ap[i][2])) <= IdOfChar(CharAtCell(ap[j][2]))
       /\ \A i \in 1..Len(ap) : ap[i][1] = (CharAtCell(ap[i][2]) = "P")
       /\ {ap[i][2] : i \in {j \in 1..Len(ap) : ap[j][1]}} = Cells({"P"})
       /\ {ap[i][2] : i \in {j \in 1..Len(ap) : ~ap[j][1]}} = Cells(GhostChars)
       /\ layout.numGhosts = Cardinality(PlacesOf(text, GhostChars))
       /\ layout.numGhosts = Cardinality({i \in 1..Len(ap) : ~ap[i][1]})
       /\ layout.walls = Cells({"%"})
       /\ layout.food = Cells({"."})
       /\ {layout.capsules[i] : i \in 1..Len(layout.capsules)} = Cells({"o"})

\* C30 as stated: after Layout construction from any layout text,
\* agentPositions is ordered by agent id with the Pacman entries first, each
\* entry is (isPacman, position) with isPacman true exactly for the entries
\* of a 'P', numGhosts is the number of 'G' and '1'..'4' characters of the
\* text (the number of entries that are not Pacman's), and the character at
\* text row r, column x is placed at grid cell (x, height-1-r).
C30_LayoutAsText == layout.built => AsTheTextSays

\* every row of the text is as long as the first
Rectangular(text) == \A r \in 1..Len(text) : Len(text[r]) = Len(text[1])

\* C30, for a layout text whose rows all have the length of the first: the
\* same statement.
C30_LayoutAsRectangularText ==
    (layout.built /\ Rectangular(layout.layoutText)) => AsTheTextSays

\* the Layout of a text of two rows with a numbered ghost, a ghost and
\* Pacman: Pacman's entry first, the ghosts by their ids, the top row of the
\* text at grid row 1
C30_Witness ==
    /\ layout.built
    /\ layout.layoutText = <<<<"2", ".">>, <<"G", "P">>>>
    /\ layout.agentPositions
         = <<<<TRUE, <<1, 0>>>>, <<FALSE, <<0, 0>>>>, <<FALSE, <<0, 1>>>>>>
    /\ layout.numGhosts = 2
    /\ layout.food = {<<1, 1>>}

====
